---- MODULE Spec2Model ----
(***************************************************************************)
(* A model of the wikitrans parser (src/env/Lib/site-packages/wikitrans):  *)
(* the line source, the tokenizer (tokread), the bold/italic fix-up of     *)
(* tokenize(), and the recursive-descent parser of wikimarkup.py, run as a *)
(* machine with an explicit call stack: one action per parser method, one  *)
(* step per loop iteration of that method.                                 *)
(*                                                                         *)
(* Text is a sequence of one-character strings; positions are 0-based as   *)
(* in Python (the character at Python index p of s is s[p+1]).             *)
(***************************************************************************)
EXTENDS Integers, Sequences, FiniteSets, TLC

VARIABLES
    text,        \* WikiMarkup.text: the lines not yet read (text source)
    file,        \* WikiMarkup.file: [open, rest] (file source)
    strict,      \* WikiMarkupParser.strict
    line,        \* tokread: the current physical line (None, or characters)
    pos,         \* tokread: the position in line
    toklist,     \* WikiMarkupParser.toklist
    stack,       \* tokenize: the index stack of the bold/italic fix-up
    tokind,      \* WikiMarkupParser.tokind
    newline,     \* WikiMarkupParser.newline
    tree,        \* WikiMarkupParser.tree
    mark,        \* WikiMarkupParser.mark (a list of the class)
    references,  \* HtmlWikiMarkup.references (a list of the class)
    frames,      \* the call stack of the parse_* methods, innermost last
    entered,     \* for each frame of the call stack, tokind when the method was called
    ret,         \* the value the method that returned last handed back
    pc,          \* where parse() stands: idle, tokread, nowiki, fixup, parse, done, error
    err,         \* the exception that ended parse(), "" when none
    doc,         \* the input material the current instance was built on
    width,       \* TextWikiMarkup.width
    para,        \* fmtpara: the string it is called on
    filled,      \* fmtpara: the string it returned, None before the call
    keywords,    \* TexiWikiMarkup(...): the keywords of the call
    sectioning_model,  \* TexiWikiMarkup.sectioning_model
    sectioning_start,  \* TexiWikiMarkup.sectioning_start
    texi,        \* the Texinfo renderer: none, built, or the error that ended __init__
    acc,         \* TexiWikiMarkup: what str() returned, None before the call
    parsers,     \* two parser instances at work at once: the attributes of each
    mark_owner,  \* for each entry of mark, the instance that pushed it
    ref_owner,   \* for each entry of references, the instance that built it
    pages,       \* the rows of WikiPage, in the order of their keys
    subtopics,   \* the rows of SubTopic, in the order of their keys
    response,    \* what the last request was answered with
    topics_text  \* what the last get_sub_topics() returned, and of which page

parser_vars == <<text, file, strict, line, pos, toklist, stack, tokind, newline, tree,
                 mark, references, frames, entered, ret, pc, err, doc>>
fill_vars == <<width, para, filled>>
texi_vars == <<keywords, sectioning_model, sectioning_start, texi, acc>>
conc_vars == <<parsers, mark_owner, ref_owner>>
site_vars == <<pages, subtopics, response, topics_text>>
\* what the parser leaves alone
beside_parser == <<fill_vars, texi_vars, conc_vars, site_vars>>

vars == <<parser_vars, beside_parser>>

-----------------------------------------------------------------------------
(* Bounds of the model.                                                    *)

\* Longest input, counted in pieces of Vocab, that Init enumerates.
MaxPieces == 3
\* Longest input, counted in pieces of QuoteVocab, that Init enumerates.
MaxQuotes == 4
\* Longest input, counted in pieces of HeaderVocab, that Init enumerates.
MaxHeaders == 5
\* Widest line the paragraphs are filled to, and the longest paragraph, in
\* characters.
MaxWidth == 5
MaxPara == 8

\* Deepest header the Texinfo renderer is asked to format.
MaxLevel == 5

\* Most rows of WikiPage and of SubTopic the site is filled with.
MaxPages == 2
MaxSubTopics == 2

\* Tokens after which the model stops following a tokenizer that never ends.
MaxToks == 14
\* Entries in the lists of the class (references, mark) beyond which no
\* further parse() is started.
MaxShared == 2

-----------------------------------------------------------------------------
(* Characters and strings.                                                 *)

None == <<"<None>">>

\* TextWikiMarkup.width, the default
DefaultWidth == 78

SpTab == {" ", "\t"}
WhiteSpace == {" ", "\t", "\n"}
Letters == {"a","b","c","d","e","f","g","h","i","j","k","l","m","n","o","p","q",
            "r","s","t","u","v","w","x","y","z","T","0","1","2","_"}

At(s, p) == IF p >= 0 /\ p < Len(s) THEN s[p + 1] ELSE ""
Slice(s, a, b) == SubSeq(s, a + 1, IF b > Len(s) THEN Len(s) ELSE b)
From(s, a) == SubSeq(s, a + 1, Len(s))

RECURSIVE RunEnd(_, _, _)
RunEnd(s, p, S) == IF p < Len(s) /\ s[p + 1] \in S THEN RunEnd(s, p + 1, S) ELSE p

RECURSIVE Find(_, _, _)
Find(s, p, c) == IF p >= Len(s) THEN -1
                 ELSE IF s[p + 1] = c THEN p ELSE Find(s, p + 1, c)

RECURSIVE strip(_)
strip(s) == IF s = <<>> THEN s
            ELSE IF s[1] \in WhiteSpace THEN strip(Tail(s))
            ELSE IF s[Len(s)] \in WhiteSpace THEN strip(SubSeq(s, 1, Len(s) - 1))
            ELSE s

RECURSIVE Flatten(_)
Flatten(ss) == IF ss = <<>> THEN <<>> ELSE Head(ss) \o Flatten(Tail(ss))

RECURSIVE split(_, _)
split(s, cur) == IF s = <<>> THEN <<cur>>
                 ELSE IF s[1] = "\n" THEN <<cur>> \o split(Tail(s), <<>>)
                 ELSE split(Tail(s), Append(cur, s[1]))

S_nowiki == <<"n","o","w","i","k","i">>
S_ref == <<"r","e","f">>
S_references == <<"r","e","f","e","r","e","n","c","e","s">>
S_code == <<"c","o","d","e">>
S_tt == <<"t","t">>
S_div == <<"d","i","v">>
S_http == <<"h","t","t","p">>
Q2 == <<"'","'">>
Q3 == <<"'","'","'">>

tags == {S_code, S_nowiki, S_tt, S_div, S_ref, S_references}
inline_delims == {Q2, Q3, <<"[">>, <<"]">>, <<"[","[">>, <<"]","]">>,
                  <<"{","{">>, <<"}","}">>, <<"|">>}
envtypes == {"*", "#", ";", ":"}
envtype_name(c) == IF c = "*" THEN "unnumbered" ELSE IF c = "#" THEN "numbered" ELSE "defn"
envtype_sub(c) == IF c = ":" THEN 1 ELSE 0
HasCloseDelim(od) == od \in {<<"[">>, <<"[","[">>, <<"{","{">>}
close_delim(od) == IF od = <<"[">> THEN <<"]">>
                   ELSE IF od = <<"[","[">> THEN <<"]","]">> ELSE <<"}","}">>

-----------------------------------------------------------------------------
(* Nodes (tokens are nodes).                                               *)

NoNode == [type |-> "None"]
Truthy(n) == n.type # "None"

NIL == [type |-> "NIL"]
NL == [type |-> "NL"]
TEXT(c) == [type |-> "TEXT", content |-> c]
DELIM(c, b, k) == [type |-> "DELIM", content |-> c, isblock |-> b, continuation |-> k]
OTAG(t, b, a) == [type |-> "OTAG", tag |-> t, isblock |-> b, args |-> a]
CTAG(t) == [type |-> "CTAG", tag |-> t, isblock |-> FALSE]
SeqNode(ty, c) == [type |-> ty, content |-> c]

\* str(node) of a delimiter token: json.dumps of its json_encode(), keys sorted.
JsonHead == <<"{","\"","c","o","n","t","e","n","t","\"",":"," ","\"">>
JsonTail == <<"\"",","," ","\"","t","y","p","e","\"",":"," ","\"","D","E","L","I","M","\"",
              ","," ","\"","w","i","k","i","n","o","d","e","\"",":"," ","\"","W","i","k","i",
              "D","e","l","i","m","N","o","d","e","\"","}">>
str(tok) == JsonHead \o tok.content \o JsonTail

-----------------------------------------------------------------------------
(* The regular expressions of WikiMarkupParser, each as the match re finds. *)

\* $ : at the end of the string or just before a newline that ends it.
AtEnd(s, q) == q = Len(s) \/ (q = Len(s) - 1 /\ s[Len(s)] = "\n")

\* delim, tried at position p: the end of the first alternative that matches
\* there, -1 when none does.
delim_at(s, p) ==
    LET c   == At(s, p)
        eq1 == RunEnd(s, p, {"="})
        sp0 == RunEnd(s, p, SpTab)
        eq2 == RunEnd(s, sp0, {"="})
        sp2 == RunEnd(s, eq2, SpTab)
    IN  IF p = 0 /\ eq1 - p >= 2 THEN RunEnd(s, eq1, SpTab)
        ELSE IF eq2 - sp0 >= 2 /\ AtEnd(s, sp2) THEN sp2
        ELSE IF p = 0 /\ Slice(s, 0, 4) = <<"-","-","-","-">> /\ AtEnd(s, 4) THEN 4
        ELSE IF p = 0 /\ c = "*" THEN RunEnd(s, p, {"*"})
        ELSE IF p = 0 /\ c = "#" THEN RunEnd(s, p, {"#"})
        ELSE IF p = 0 /\ c \in {";", ":"} THEN RunEnd(s, p, {";", ":"})
        ELSE IF c = "[" THEN (IF At(s, p + 1) = "[" THEN p + 2 ELSE p + 1)
        ELSE IF c = "{" /\ At(s, p + 1) = "{" THEN p + 2
        ELSE IF c = "]" THEN (IF At(s, p + 1) = "]" THEN p + 2 ELSE p + 1)
        ELSE IF c = "}" /\ At(s, p + 1) = "}" THEN p + 2
        ELSE IF c = "|" THEN p + 1
        ELSE IF c = "'" /\ At(s, p + 1) = "'"
             THEN (IF At(s, p + 2) = "'" THEN p + 3 ELSE p + 2)
        ELSE IF c = "<" THEN p + 1
        ELSE -1

\* delim.search(line, pos): the leftmost match at or after p.
RECURSIVE delim_search(_, _)
delim_search(s, p) ==
    IF p >= Len(s) THEN [start |-> -1, end |-> -1]
    ELSE IF delim_at(s, p) >= 0 THEN [start |-> p, end |-> delim_at(s, p)]
    ELSE delim_search(s, p + 1)

NoMatch == [ok |-> FALSE]

\* The (?:\s+(?P<args>[^/][^>]+))? group of otag after the tag name ending at
\* e, with k whitespace characters given to \s+ (tried from the longest).
RECURSIVE otag_args(_, _, _)
otag_args(s, e, k) ==
    IF k < 1 THEN NoMatch
    ELSE LET a == e + k
             g == Find(s, a + 1, ">")
         IN  IF a < Len(s) /\ s[a + 1] # "/" /\ g >= a + 2
             THEN [ok |-> TRUE, hasargs |-> TRUE, args |-> Slice(s, a, g),
                   closed |-> FALSE, end |-> g + 1]
             ELSE otag_args(s, e, k - 1)

\* otag.match(line, pos)
otag_match(s, p) ==
    LET e  == RunEnd(s, p + 1, Letters)
        w  == RunEnd(s, e, WhiteSpace)
        c  == IF At(s, w) = "/" THEN w + 1 ELSE w
        wa == otag_args(s, e, w - e)
    IN  IF At(s, p) # "<" \/ e = p + 1 THEN NoMatch
        ELSE IF wa.ok THEN [wa EXCEPT !.ok = TRUE] @@ [tag |-> Slice(s, p + 1, e), start |-> p]
        ELSE IF At(s, c) = ">"
             THEN [ok |-> TRUE, hasargs |-> FALSE, args |-> <<>>, closed |-> c > w,
                   end |-> c + 1, tag |-> Slice(s, p + 1, e), start |-> p]
        ELSE NoMatch

\* ctag.match(line, pos)
ctag_match(s, p) ==
    LET e == RunEnd(s, p + 2, Letters)
        w == RunEnd(s, e, WhiteSpace)
    IN  IF At(s, p) = "<" /\ At(s, p + 1) = "/" /\ e > p + 2 /\ At(s, w) = ">"
        THEN [ok |-> TRUE, tag |-> Slice(s, p + 2, e), start |-> p, end |-> w + 1]
        ELSE NoMatch

\* ctag.search(line, pos)
RECURSIVE ctag_search(_, _)
ctag_search(s, p) ==
    IF p >= Len(s) THEN NoMatch
    ELSE IF ctag_match(s, p).ok THEN ctag_match(s, p)
    ELSE ctag_search(s, p + 1)

\* refstart.match(content): ^https?://
refstart_match(c) ==
    LET q == IF At(c, 4) = "s" THEN 5 ELSE 4
    IN  Slice(c, 0, 4) = S_http /\ Len(c) >= q + 3 /\ Slice(c, q, q + 3) = <<":","/","/">>

-----------------------------------------------------------------------------
(* The line source and the tokenizer.                                      *)

\* WikiMarkup.__init__(text=STRING): the string split on newlines.
text_source(d) == [text |-> split(d, <<>>), file |-> [open |-> FALSE, rest |-> <<>>]]
\* WikiMarkup.__init__(file=FD)
file_source(d) == [text |-> <<>>, file |-> [open |-> TRUE, rest |-> d]]

\* file.readline(): up to and including the next newline; '' at end of file.
readline(rest) == LET n == Find(rest, 0, "\n")
                  IN  IF n < 0 THEN rest ELSE Slice(rest, 0, n + 1)

\* WikiMarkup.input(): the next physical line, and the source after the read.
input(tx, fl) ==
    IF fl.open
    THEN [line |-> readline(fl.rest), text |-> tx,
          file |-> [fl EXCEPT !.rest = From(fl.rest, Len(readline(fl.rest)))]]
    ELSE IF tx # <<>>
    THEN [line |-> Append(Head(tx), "\n"), text |-> Tail(tx), file |-> fl]
    ELSE [line |-> None, text |-> tx, file |-> fl]

Falsy(l) == l = None \/ l = <<>>

\* TagAttributes(string): "ok", or the exception its constructor raises.
RECURSIVE RunEndNot(_, _, _)
RunEndNot(s, p, S) == IF p < Len(s) /\ s[p + 1] \notin S THEN RunEndNot(s, p + 1, S) ELSE p

\* The quoted value after name=" : valseg, the regular expression ^[^\"]+
\* (everything up to the next double quote, backslashes included), then the
\* closing quote.  A value that is empty leaves no match to take group(0) of;
\* one that is never closed leaves no s[0] to look at.
attr_value(s) ==
    LET e == RunEndNot(s, 0, {"\""})
    IN  IF e = 0 THEN [exc |-> "AttributeError", rest |-> s]
        ELSE IF e >= Len(s) THEN [exc |-> "IndexError", rest |-> <<>>]
        ELSE [exc |-> "", rest |-> From(s, e + 1)]

RECURSIVE TagAttributes(_)
TagAttributes(string) ==
    IF string = <<>> THEN "ok"
    ELSE LET s == strip(string)
             e == RunEnd(s, 0, Letters \cup {"-"})
             q == At(s, e) = "=" /\ At(s, e + 1) = "\""
             v == attr_value(From(s, e + 2))
         IN  IF e = 0 THEN "TagAttributeSyntaxError"
             ELSE IF ~q THEN TagAttributes(From(s, e))
             ELSE IF v.exc # "" THEN v.exc
             ELSE TagAttributes(v.rest)

\* What one pass of the main loop of tokread does from (l0, p0): the tokens it
\* yields, the line and position it leaves, the source after its reads, where
\* the generator goes on ("tokread", "nowiki", or "fixup" once NIL is out),
\* and the exception that escapes it, if any.
tokread_pass(l0, p0, tx, fl) ==
    LET rd  == Falsy(l0) \/ p0 = Len(l0)
        inp == input(tx, fl)
        l   == IF rd THEN inp.line ELSE l0
        p   == IF rd THEN 0 ELSE p0
        tx1 == IF rd THEN inp.text ELSE tx
        fl1 == IF rd THEN inp.file ELSE fl
        R(toks, l2, p2, to, e) ==
            [toks |-> toks, line |-> l2, pos |-> p2, text |-> tx1, file |-> fl1,
             to |-> to, err |-> e]
    IN
    IF Falsy(l) THEN R(<<NIL>>, l, p, "fixup", "")
    ELSE IF l = <<"\n">> THEN R(<<NL>>, None, p, "tokread", "")
    ELSE
    LET m   == delim_search(l, p)
        pre == IF p < m.start THEN <<TEXT(Slice(l, p, m.start))>> ELSE <<>>
    IN
    IF m.start < 0
    THEN \* no delimiter left on the line
         IF l[Len(l)] = "\n"
         THEN R((IF Slice(l, p, Len(l) - 1) # <<>>
                 THEN <<TEXT(Slice(l, p, Len(l) - 1))>> ELSE <<>>) \o <<NL>>,
                None, p, "tokread", "")
         ELSE R(<<TEXT(From(l, p))>>, None, p, "tokread", "")
    ELSE IF l[m.start + 1] = "<"
    THEN LET om == otag_match(l, m.start)
             cm == ctag_match(l, m.start)
         IN  IF om.ok
             THEN IF om.tag = S_nowiki
                  THEN R(pre, l, om.end, IF om.closed THEN "tokread" ELSE "nowiki", "")
                  ELSE IF om.tag \in tags
                  THEN IF om.end >= Len(l)
                       THEN R(pre, l, om.end, "error", "IndexError")
                       ELSE IF TagAttributes(om.args) = "TagAttributeSyntaxError"
                       THEN R(pre \o <<TEXT(Slice(l, om.start, om.end))>>,
                              l, om.end, "tokread", "")
                       ELSE IF TagAttributes(om.args) # "ok"
                       THEN R(pre, l, om.end, "error", TagAttributes(om.args))
                       ELSE R(pre \o <<OTAG(om.tag, l[om.end + 1] = "\n", om.args)>>
                                  \o (IF om.closed THEN <<CTAG(om.tag)>> ELSE <<>>),
                              l, om.end, "tokread", "")
                  ELSE R(pre \o <<TEXT(Slice(l, om.start, om.end))>>,
                         l, om.end, "tokread", "")
             ELSE IF cm.ok
             THEN R(pre \o <<IF cm.tag \in tags THEN CTAG(cm.tag)
                             ELSE TEXT(Slice(l, cm.start, cm.end))>>,
                    l, cm.end, "tokread", "")
             ELSE R(pre \o <<TEXT(Slice(l, m.start, m.start + 1))>>,
                    l, m.start + 1, "tokread", "")
    ELSE LET content == Slice(l, m.start, m.end)
             cont    == m.end < Len(l) /\ l[m.end + 1] = ":"
             p1      == IF cont THEN m.end + 1 ELSE m.end
         IN  IF content[1] \in envtypes
             THEN R(pre \o <<DELIM(IF cont THEN Append(content, content[1]) ELSE content,
                                   TRUE, cont)>>,
                    l, RunEnd(l, p1, SpTab), "tokread", "")
             ELSE R(pre \o <<DELIM(strip(content), strip(content) \notin inline_delims,
                                   FALSE)>>,
                    l, m.end, "tokread", "")

\* One pass of the raw-copy loop entered after <nowiki>.
nowiki_pass(l, p, tx, fl) ==
    LET m   == IF l = None THEN NoMatch ELSE ctag_search(l, p)
        inp == input(tx, fl)
    IN  IF l = None
        THEN [toks |-> <<>>, line |-> l, pos |-> p, text |-> tx, file |-> fl,
              to |-> "error", err |-> "TypeError"]
        ELSE IF m.ok /\ m.tag = S_nowiki
        THEN [toks |-> <<TEXT(Slice(l, p, m.start))>>, line |-> l, pos |-> m.end,
              text |-> tx, file |-> fl, to |-> "tokread", err |-> ""]
        ELSE [toks |-> <<TEXT(From(l, p))>>, line |-> inp.line, pos |-> 0,
              text |-> inp.text, file |-> inp.file, to |-> "nowiki", err |-> ""]

-----------------------------------------------------------------------------
(* The parser's state as one record, and the methods that work on it.  A   *)
(* method takes the record and returns the record after the call; tok and  *)
(* res hold what the method returned.                                      *)

Frame(fn) == [fn |-> fn, pc |-> "enter", tok |-> NoNode, list |-> <<>>,
              subtree |-> <<>>, textlist |-> <<>>, text |-> <<>>, delim |-> <<>>,
              lev |-> 0, type |-> ""]

Machine == [toklist |-> toklist, tokind |-> tokind, newline |-> newline,
            tree |-> tree, mark |-> mark, references |-> references,
            frames |-> frames, ret |-> ret, pc |-> pc, err |-> err,
            strict |-> strict, tok |-> NoNode, res |-> FALSE]

Top(m) == m.frames[Len(m.frames)]
SetTop(m, f) == [m EXCEPT !.frames[Len(m.frames)] = f]
Front(q) == SubSeq(q, 1, Len(q) - 1)

\* A call: the caller waits at pc `at`, the callee's frame goes on top.
Call(m, f, at, callee) ==
    [m EXCEPT !.frames = Append(Front(m.frames) \o <<[f EXCEPT !.pc = at]>>, callee)]
\* A return: the frame is dropped and the value handed to the caller.
Return(m, v) == [m EXCEPT !.frames = Front(m.frames), !.ret = v]
\* An exception nobody catches: it unwinds every frame and ends parse().
Raise(m, e) == [m EXCEPT !.frames = <<>>, !.pc = "error", !.err = e]
Stay(m, f) == SetTop(m, [f EXCEPT !.pc = "loop"])

\* pop_mark that forgets the mark and leaves the cursor where it is
pop_mark_without_restore(m) == [m EXCEPT !.mark = Front(m.mark)]

push_mark(m) == [m EXCEPT !.mark = Append(m.mark, m.tokind)]
pop_mark(m) == [m EXCEPT !.tokind = m.mark[Len(m.mark)], !.mark = Front(m.mark)]
clear_mark(m) == [m EXCEPT !.mark = Front(m.mark)]

\* toklist[tokind+off], a negative index counting from the end as in Python.
lookahead(m, off) ==
    LET i == m.tokind + off
    IN  IF i < 0 THEN m.toklist[Len(m.toklist) + i + 1] ELSE m.toklist[i + 1]

IsNewline(m, i) == i = 0 \/ m.toklist[i].type = "NL"

getkn(m) ==
    IF m.tokind = Len(m.toklist)
    THEN [m EXCEPT !.newline = IsNewline(m, m.tokind), !.tok = NIL]
    ELSE [m EXCEPT !.newline = IsNewline(m, m.tokind), !.tok = m.toklist[m.tokind + 1],
                   !.tokind = m.tokind + 1]

\* ungetkn(tok); NoNode stands for the call without an argument.
ungetkn(m, t) ==
    LET i  == m.tokind - 1
        tl == IF Truthy(t) THEN [m.toklist EXCEPT ![i + 1] = t] ELSE m.toklist
    IN  [m EXCEPT !.tokind = i, !.newline = IsNewline(m, i), !.toklist = tl,
                  !.tok = tl[i + 1]]

fixuptkn(m, t) == [m EXCEPT !.toklist[m.tokind] = t, !.tok = t]

is_block_end(m, t) ==
    IF t.type = "NIL" THEN [m EXCEPT !.res = TRUE]
    ELSE IF t.type = "NL"
    THEN IF lookahead(m, 0).type = "NIL" THEN [m EXCEPT !.res = TRUE]
         ELSE IF lookahead(m, 0).type = "NL" THEN [getkn(m) EXCEPT !.res = TRUE]
         ELSE [m EXCEPT !.res = FALSE]
    ELSE IF t.type \in {"DELIM", "CTAG", "TAG"} /\ t.isblock
    THEN [ungetkn(m, t) EXCEPT !.res = TRUE]
    ELSE [m EXCEPT !.res = FALSE]

\* _new_node(type='TAG', ...): WikiTagNode.__init__ numbers a ref tag and
\* appends it to the parser's references; idx -1 stands for None.
new_tag(m, tag, content) ==
    LET isref == tag.tag = S_ref
        node  == [type |-> "TAG", tag |-> tag.tag, args |-> tag.args,
                  isblock |-> tag.isblock, content |-> content,
                  idx |-> IF isref THEN Len(m.references) ELSE -1]
    IN  [m EXCEPT !.references = IF isref THEN Append(@, node) ELSE @, !.tok = node]

-----------------------------------------------------------------------------
(* The parse_* methods: what one step of each does to the machine.  A step *)
(* runs the method from where its frame stands to its next call, return or *)
(* loop iteration.                                                         *)

\* parse(): the loop over parse_block().
parse_step(m) ==
    LET f == Top(m)
    IN  IF f.pc = "enter" THEN Call(m, f, "ret", Frame("parse_block"))
        ELSE IF ~Truthy(m.ret) THEN [m EXCEPT !.frames = <<>>, !.pc = "done"]
        ELSE Call([m EXCEPT !.tree = Append(m.tree, m.ret)], f, "ret", Frame("parse_block"))

RECURSIVE skip_newlines(_)
skip_newlines(m) == IF m.tok.type = "NL" THEN skip_newlines(getkn(m)) ELSE m

parse_block_step(m) ==
    LET f  == Top(m)
        m1 == skip_newlines(getkn(m))
        m2 == getkn(m)
    IN  IF f.pc = "enter"
        THEN IF m1.tok.type = "NIL" THEN Return(m1, NoNode)
             ELSE IF m1.tok.type = "DELIM"
             THEN Call(m1, f, "ret_delim", [Frame("parse_block_delim") EXCEPT !.tok = m1.tok])
             ELSE IF m1.tok.type = "OTAG" /\ m1.tok.isblock
             THEN Call(m1, f, "ret_pass", [Frame("parse_tag") EXCEPT !.tok = m1.tok])
             ELSE Call(m1, f, "ret_pass", [Frame("parse_para") EXCEPT !.tok = m1.tok])
        ELSE IF f.pc = "ret_delim"
        THEN IF Truthy(m.ret) THEN Return(m, m.ret)
             ELSE Call(m2, f, "ret_pass", [Frame("parse_para") EXCEPT !.tok = m2.tok])
        ELSE Return(m, m.ret)

parse_block_delim_step(m) ==
    LET f   == Top(m)
        tok == f.tok
        t   == lookahead(m, -2)
    IN  IF f.pc = "enter"
        THEN IF tok.content = <<"-","-","-","-">> THEN Return(m, [type |-> "BAR"])
             ELSE IF Slice(tok.content, 0, 2) = <<"=","=">>
             THEN Call(m, f, "ret_hdr", [Frame("parse_header") EXCEPT !.tok = tok])
             ELSE IF tok.content[1] \in envtypes
             THEN IF tok.content[1] = ":" /\ ~(t.type = "DELIM" /\ t.content = <<";">>)
                  THEN Call(m, f, "ret_pass", [Frame("parse_indent") EXCEPT !.tok = tok])
                  ELSE Call(m, f, "ret_pass", [Frame("parse_env") EXCEPT !.tok = tok])
             ELSE Return(ungetkn(m, tok), NoNode)
        ELSE IF f.pc = "ret_hdr"
        THEN IF Truthy(m.ret) THEN Return(m, m.ret)
             ELSE Return(ungetkn(m, TEXT(tok.content)), NoNode)
        ELSE Return(m, m.ret)

\* parse_header with the closing delimiter compared loosely: any run of = closes
\* the header, whatever its length.
parse_header_any_closer(m) ==
    LET f0 == Top(m)
        \* entry: push_mark(); list = []; delim = tok.content
        me == IF f0.pc = "enter"
              THEN SetTop(push_mark(m), [f0 EXCEPT !.delim = f0.tok.content, !.list = <<>>])
              ELSE IF f0.pc = "ret_append"
              THEN SetTop(m, [f0 EXCEPT !.list = Append(f0.list, m.ret)])
              ELSE m
        f  == Top(me)
        m1 == getkn(me)
        tok == m1.tok
        m2 == getkn(m1)
        m3 == IF lookahead(m2, 0).type = "NL" THEN getkn(m2) ELSE m2
    IN  IF tok.type = "NL" THEN Return(pop_mark(m1), NoNode)
        ELSE IF tok.type = "TEXT" THEN Stay(m1, [f EXCEPT !.list = Append(f.list, tok)])
        ELSE IF tok.type = "DELIM"
        THEN IF Slice(tok.content, 0, 2) = <<"=","=">>
             THEN IF lookahead(m1, 0).type = "NL"
                  THEN Return(clear_mark(m3),
                              [type |-> "HDR", level |-> Len(f.delim),
                               content |-> SeqNode("SEQ", f.list)])
                  ELSE Return(pop_mark(m1), NoNode)
             ELSE IF tok.isblock THEN Return(pop_mark(m1), NoNode)
             ELSE Call(m1, f, "ret_append", [Frame("parse_inline_delim") EXCEPT !.tok = tok])
        ELSE IF tok.type = "OTAG"
        THEN IF tok.isblock THEN Return(pop_mark(m1), NoNode)
             ELSE Call(m1, f, "ret_append", [Frame("parse_tag") EXCEPT !.tok = tok])
        ELSE Stay(m1, f)

parse_header_step(m) ==
    LET f0 == Top(m)
        \* entry: push_mark(); list = []; delim = tok.content
        me == IF f0.pc = "enter"
              THEN SetTop(push_mark(m), [f0 EXCEPT !.delim = f0.tok.content, !.list = <<>>])
              ELSE IF f0.pc = "ret_append"
              THEN SetTop(m, [f0 EXCEPT !.list = Append(f0.list, m.ret)])
              ELSE m
        f  == Top(me)
        m1 == getkn(me)
        tok == m1.tok
        m2 == getkn(m1)
        m3 == IF lookahead(m2, 0).type = "NL" THEN getkn(m2) ELSE m2
    IN  IF tok.type = "NL" THEN Return(pop_mark(m1), NoNode)
        ELSE IF tok.type = "TEXT" THEN Stay(m1, [f EXCEPT !.list = Append(f.list, tok)])
        ELSE IF tok.type = "DELIM"
        THEN IF tok.content = f.delim
             THEN IF lookahead(m1, 0).type = "NL"
                  THEN Return(clear_mark(m3),
                              [type |-> "HDR", level |-> Len(f.delim),
                               content |-> SeqNode("SEQ", f.list)])
                  ELSE Return(pop_mark(m1), NoNode)
             ELSE IF tok.isblock THEN Return(pop_mark(m1), NoNode)
             ELSE Call(m1, f, "ret_append", [Frame("parse_inline_delim") EXCEPT !.tok = tok])
        ELSE IF tok.type = "OTAG"
        THEN IF tok.isblock THEN Return(pop_mark(m1), NoNode)
             ELSE Call(m1, f, "ret_append", [Frame("parse_tag") EXCEPT !.tok = tok])
        ELSE Stay(m1, f)

\* rx.match(content) of parse_para: ^[ \t] for a paragraph, ^\S for preformatted.
rx_match(type, c) ==
    IF type = "PARA" THEN At(c, 0) \in SpTab
    ELSE c # <<>> /\ c[1] \notin WhiteSpace

\* flush() of parse_para
flush(f) ==
    IF f.textlist # <<>>
    THEN [f EXCEPT !.list = Append(f.list, TEXT(Flatten(f.textlist))), !.textlist = <<>>]
    ELSE f

\* parse_para up to the test of its loop: the type is chosen on entry, the
\* node of a sub-parse is appended and the next token read on return.
parse_para_head(m) ==
    LET f0 == Top(m)
    IN  IF f0.pc = "enter"
        THEN SetTop(m, [f0 EXCEPT !.type =
                IF f0.tok.type \in {"TEXT", "DELIM"} /\ At(f0.tok.content, 0) \in SpTab
                THEN "PRE" ELSE "PARA"])
        ELSE IF f0.pc = "ret_append"
        THEN SetTop(getkn(m), [f0 EXCEPT !.list = Append(f0.list, m.ret),
                                         !.tok = getkn(m).tok])
        ELSE m

parse_para_step(m) ==
    LET me  == parse_para_head(m)
        f   == Top(me)
        tok == f.tok
        mb  == is_block_end(me, tok)
        next(mm, ff) == Stay(getkn(mm), [ff EXCEPT !.tok = getkn(mm).tok])
        leave(mm, ff) ==
            Return(mm, IF flush(ff).list # <<>> THEN SeqNode(ff.type, flush(ff).list)
                       ELSE NoNode)
    IN  IF mb.res THEN leave(mb, f)
        ELSE IF tok.type = "TEXT"
        THEN IF mb.newline /\ rx_match(f.type, tok.content)
             THEN leave(ungetkn(mb, NoNode), f)
             ELSE next(mb, [f EXCEPT !.textlist = Append(f.textlist, tok.content)])
        ELSE IF tok.type = "NL"
        THEN next(mb, [f EXCEPT !.textlist = Append(f.textlist, <<"\n">>)])
        ELSE IF tok.type = "OTAG"
        THEN Call(mb, flush(f), "ret_append", [Frame("parse_tag") EXCEPT !.tok = tok])
        ELSE IF tok.type = "DELIM"
        THEN Call(mb, flush(f), "ret_append", [Frame("parse_inline_delim") EXCEPT !.tok = tok])
        ELSE IF mb.strict THEN Raise(mb, "UnexpectedTokenError")
        ELSE next(mb, f)

parse_line_step(m) ==
    LET f0 == Top(m)
        x  == m.ret
        \* back from parse_inline_delim: x, or the opener as literal text
        mi == IF Truthy(x) THEN m ELSE fixuptkn(m, TEXT(f0.tok.content))
        me == IF f0.pc = "ret_append"
              THEN SetTop(m, [f0 EXCEPT !.list = Append(f0.list, x)])
              ELSE IF f0.pc = "ret_inline"
              THEN SetTop(mi, [f0 EXCEPT !.list = Append(f0.list,
                                            IF Truthy(x) THEN x ELSE mi.tok)])
              ELSE m
        f   == Top(me)
        m1  == getkn(me)
        tok == m1.tok
        leave(mm, ff) == Return(mm, SeqNode("SEQ", ff.list))
    IN  IF f0.pc = "ret_indent" THEN leave(m, [f0 EXCEPT !.list = Append(f0.list, x)])
        ELSE IF tok.type \in {"NL", "NIL"} THEN leave(m1, f)
        ELSE IF tok.type = "TEXT" THEN Stay(m1, [f EXCEPT !.list = Append(f.list, tok)])
        ELSE IF tok.type = "DELIM"
        THEN IF tok.isblock
             THEN Stay(fixuptkn(m1, TEXT(tok.content)),
                       [f EXCEPT !.list = Append(f.list, TEXT(tok.content))])
             ELSE IF tok.content[1] = ":"
             THEN Call(m1, f, "ret_indent", [Frame("parse_indent") EXCEPT !.tok = tok])
             ELSE Call(m1, [f EXCEPT !.tok = tok], "ret_inline",
                       [Frame("parse_inline_delim") EXCEPT !.tok = tok])
        ELSE IF tok.type = "OTAG"
        THEN IF tok.isblock THEN leave(ungetkn(m1, NoNode), f)
             ELSE Call(m1, f, "ret_append", [Frame("parse_tag") EXCEPT !.tok = tok])
        ELSE Stay(m1, [f EXCEPT !.list = Append(f.list, tok)])

parse_indent_step(m) ==
    LET f == Top(m)
    IN  IF f.pc = "enter"
        THEN Call(m, [f EXCEPT !.lev = Len(f.tok.content)], "ret", Frame("parse_line"))
        ELSE Return(m, [type |-> "IND", level |-> f.lev, content |-> m.ret])

\* parse_fontmod with the closing delimiter met, the run returned as a plain
\* sequence: the font modifier is lost.
parse_fontmod_plain(m) ==
    LET f0 == Top(m)
        me == IF f0.pc = "ret_x"
              THEN SetTop(m, [f0 EXCEPT !.list = Append(f0.list, m.ret)])
              ELSE m
        f   == Top(me)
        m1  == getkn(me)
        tok == m1.tok
        mb  == is_block_end(m1, tok)
        seq == IF f.text # <<>> THEN Append(f.list, TEXT(f.text)) ELSE f.list
    IN  IF f0.pc = "ret_x" /\ ~Truthy(m.ret) THEN Return(m, NoNode)
        ELSE IF tok.type = "TEXT" THEN Stay(m1, [f EXCEPT !.text = f.text \o tok.content])
        ELSE IF mb.res THEN Return(mb, NoNode)
        ELSE IF tok.type = "DELIM"
        THEN IF tok.content = f.delim THEN Return(mb, SeqNode("SEQ", seq))
             ELSE Call(mb, [f EXCEPT !.list = seq, !.text = <<>>], "ret_x",
                       [Frame("parse_inline_delim") EXCEPT !.tok = tok])
        ELSE IF tok.type = "NL"
        THEN Stay(mb, [f EXCEPT !.list = Append(f.list, TEXT(<<"\n">>))])
        ELSE Return(mb, NoNode)

parse_fontmod_step(m) ==
    LET f0 == Top(m)
        me == IF f0.pc = "ret_x"
              THEN SetTop(m, [f0 EXCEPT !.list = Append(f0.list, m.ret)])
              ELSE m
        f   == Top(me)
        m1  == getkn(me)
        tok == m1.tok
        mb  == is_block_end(m1, tok)
        seq == IF f.text # <<>> THEN Append(f.list, TEXT(f.text)) ELSE f.list
    IN  IF f0.pc = "ret_x" /\ ~Truthy(m.ret) THEN Return(m, NoNode)
        ELSE IF tok.type = "TEXT" THEN Stay(m1, [f EXCEPT !.text = f.text \o tok.content])
        ELSE IF mb.res THEN Return(mb, NoNode)
        ELSE IF tok.type = "DELIM"
        THEN IF tok.content = f.delim THEN Return(mb, SeqNode(f.type, seq))
             ELSE Call(mb, [f EXCEPT !.list = seq, !.text = <<>>], "ret_x",
                       [Frame("parse_inline_delim") EXCEPT !.tok = tok])
        ELSE IF tok.type = "NL"
        THEN Stay(mb, [f EXCEPT !.list = Append(f.list, TEXT(<<"\n">>))])
        ELSE Return(mb, NoNode)

\* content.partition(' ')
partition_ref(c) == IF Find(c, 0, " ") < 0 THEN c ELSE Slice(c, 0, Find(c, 0, " "))
partition_text(c) == IF Find(c, 0, " ") < 0 THEN <<>> ELSE From(c, Find(c, 0, " ") + 1)

parse_ref_step(m) ==
    LET f0 == Top(m)
        m0 == getkn(m)
        me == IF f0.pc = "ret_x"
              THEN SetTop(m, [f0 EXCEPT !.list = Append(f0.list, m.ret)])
              ELSE m
        f   == Top(me)
        m1  == getkn(me)
        tok == m1.tok
        mb  == is_block_end(m1, tok)
    IN  IF f0.pc = "enter"
        THEN IF ~(m0.tok.type = "TEXT" /\ refstart_match(m0.tok.content))
             THEN Return(m0, NoNode)
             ELSE Stay(m0, [f0 EXCEPT !.text = partition_ref(m0.tok.content),
                                      !.list = IF partition_text(m0.tok.content) # <<>>
                                               THEN <<TEXT(partition_text(m0.tok.content))>>
                                               ELSE <<>>])
        \* list.append(self.parse_tag(tok)): list is the builtin type here
        ELSE IF f0.pc = "ret_tag" THEN Raise(m, "TypeError")
        ELSE IF f0.pc = "ret_x" /\ ~Truthy(m.ret) THEN Return(m, NoNode)
        ELSE IF tok.type = "NIL" THEN Return(m1, NoNode)
        ELSE IF mb.res THEN Return(mb, NoNode)
        ELSE IF tok.type = "DELIM"
        THEN IF tok.content = <<"]">>
             THEN Return(mb, [type |-> "REF", ref |-> f.text,
                              content |-> SeqNode("SEQ", f.list)])
             ELSE Call(mb, f, "ret_x", [Frame("parse_inline_delim") EXCEPT !.tok = tok])
        ELSE IF tok.type = "OTAG"
        THEN Call(mb, f, "ret_tag", [Frame("parse_tag") EXCEPT !.tok = tok])
        ELSE Stay(mb, [f EXCEPT !.list = Append(f.list, tok)])

parse_link_step(m) ==
    LET f0 == Top(m)
        me == IF f0.pc = "ret_x"
              THEN SetTop(m, [f0 EXCEPT !.list = Append(f0.list, m.ret)])
              ELSE m
        f   == Top(me)
        m1  == getkn(me)
        tok == m1.tok
    IN  IF f0.pc = "ret_x" /\ ~Truthy(m.ret) THEN Return(m, NoNode)
        ELSE IF tok.type = "NIL" THEN Return(m1, NoNode)
        ELSE IF tok.type = "DELIM"
        THEN IF tok.content = f.delim
             THEN Return(m1, SeqNode(f.type,
                             IF f.list # <<>> THEN Append(f.subtree, SeqNode("SEQ", f.list))
                             ELSE f.subtree))
             ELSE IF tok.content = <<"|">>
             THEN Stay(m1, [f EXCEPT !.list = <<>>,
                                     !.subtree = IF Len(f.list) > 1
                                                 THEN Append(f.subtree, SeqNode("SEQ", f.list))
                                                 ELSE IF f.list # <<>>
                                                 THEN Append(f.subtree, f.list[1])
                                                 ELSE f.subtree])
             ELSE Call(m1, f, "ret_x", [Frame("parse_inline_delim") EXCEPT !.tok = tok])
        ELSE IF tok.type = "TEXT" THEN Stay(m1, [f EXCEPT !.list = Append(f.list, tok)])
        ELSE Return(m1, NoNode)

\* The delimiter recovery scan of parse_inline_delim over toklist[j:]: at the
\* first closing delimiter met, rewrite it if no opener was met before it.
RECURSIVE recover(_, _, _, _, _)
recover(tl, j, od, cd, lev) ==
    IF j >= Len(tl) \/ tl[j + 1].type = "NIL" THEN tl
    ELSE IF tl[j + 1].type = "DELIM" /\ tl[j + 1].content = od
    THEN recover(tl, j + 1, od, cd, lev + 1)
    ELSE IF tl[j + 1].type = "DELIM" /\ tl[j + 1].content = cd
    THEN IF lev = 0 THEN [tl EXCEPT ![j + 1] = TEXT(tl[j + 1].content)] ELSE tl
    ELSE recover(tl, j + 1, od, cd, lev)

parse_inline_delim_step(m) ==
    LET f  == Top(m)
        od == f.tok.content
        mp == push_mark(m)
        \* x is None: BEGIN DELIMITER RECOVERY
        fail(mm) ==
            LET mx == fixuptkn(pop_mark(mm), TEXT(od))
            IN  Return([mx EXCEPT !.toklist =
                            IF HasCloseDelim(od)
                            THEN recover(mx.toklist, mx.tokind + 1, od, close_delim(od), 0)
                            ELSE mx.toklist],
                       TEXT(od))
    IN  IF f.pc = "enter"
        THEN IF od = Q2
             THEN Call(mp, f, "ret", [Frame("parse_fontmod") EXCEPT !.delim = od, !.type = "IT"])
             ELSE IF od = Q3
             THEN Call(mp, f, "ret", [Frame("parse_fontmod") EXCEPT !.delim = od, !.type = "BOLD"])
             ELSE IF od = <<"[">> THEN Call(mp, f, "ret", Frame("parse_ref"))
             ELSE IF od = <<"[","[">>
             THEN Call(mp, f, "ret", [Frame("parse_link") EXCEPT !.delim = <<"]","]">>,
                                                                 !.type = "LINK"])
             ELSE IF od = <<"{","{">>
             THEN Call(mp, f, "ret", [Frame("parse_link") EXCEPT !.delim = <<"}","}">>,
                                                                 !.type = "TMPL"])
             ELSE fail(mp)
        ELSE IF Truthy(m.ret) THEN Return(clear_mark(m), m.ret)
        ELSE fail(m)

parse_tag_step(m) ==
    LET f0 == Top(m)
        tag == f0.tok
        \* back from parse_block_delim / parse_inline_delim
        mr == IF Truthy(m.ret) THEN m ELSE getkn(m)
        me == IF f0.pc = "enter" THEN push_mark(m)
              ELSE IF f0.pc = "ret_delim"
              THEN SetTop(mr, [f0 EXCEPT !.list = Append(f0.list,
                                   IF Truthy(m.ret) THEN m.ret ELSE mr.tok)])
              ELSE m
        f   == Top(me)
        m1  == getkn(me)
        tok == m1.tok
        s   == <<"<">> \o tag.tag \o (IF tag.args # <<>> THEN <<" ">> \o tag.args ELSE <<>>)
                       \o <<">">>
        mt  == new_tag(clear_mark(m1), tag, SeqNode("SEQ", f.list))
    IN  IF tok.type = "NIL" THEN Return(pop_mark(m1), TEXT(s))
        ELSE IF tok.type = "DELIM"
        THEN Call(m1, f, "ret_delim",
                  [Frame(IF tok.isblock THEN "parse_block_delim" ELSE "parse_inline_delim")
                   EXCEPT !.tok = tok])
        ELSE IF tok.type = "CTAG"
        THEN IF tag.tag = tok.tag THEN Return(mt, mt.tok)
             ELSE Stay(fixuptkn(m1, TEXT(<<"<","/">> \o tag.tag \o <<">">>)),
                       [f EXCEPT !.list = Append(f.list, TEXT(<<"<","/">> \o tag.tag \o <<">">>))])
        ELSE IF tok.type = "NL"
        THEN Stay(m1, [f EXCEPT !.list = Append(f.list, TEXT(<<"\n">>))])
        ELSE Stay(m1, [f EXCEPT !.list = Append(f.list, tok)])

\* The nested environment put into the list as an element of its own, after
\* the element it belongs to.
merge_elt_as_sibling(list, elt) ==
    Append(list, [type |-> "ELT", subtype |-> 0, content |-> SeqNode("SEQ", <<elt>>)])

\* list[-1].content.content.append(elt), when list is not empty
merge_elt(list, elt) ==
    IF list = <<>> THEN list
    ELSE [list EXCEPT ![Len(list)].content.content = Append(@, elt)]

parse_env_step(m) ==
    LET f0 == Top(m)
        elt == m.ret
        mg == getkn(m)
        me == IF f0.pc = "enter"
              THEN SetTop(m, [f0 EXCEPT !.type = envtype_name(f0.tok.content[1]),
                                        !.lev = Len(f0.tok.content), !.list = <<>>])
              ELSE IF f0.pc = "ret_line" /\ ~f0.tok.continuation
              THEN SetTop(mg, [f0 EXCEPT !.tok = mg.tok,
                                  !.list = Append(f0.list,
                                      [type |-> "ELT", subtype |-> envtype_sub(f0.tok.content[1]),
                                       content |-> elt])])
              ELSE IF f0.pc \in {"ret_line", "ret_env"}
              THEN SetTop(mg, [f0 EXCEPT !.tok = mg.tok, !.list = merge_elt(f0.list, elt)])
              ELSE m
        f   == Top(me)
        tok == f.tok
        leave(mm) == Return(mm, [type |-> "ENV", envtype |-> f.type, level |-> f.lev,
                                 content |-> f.list])
    IN  IF tok.type = "DELIM" /\ tok.content[1] \in envtypes
           /\ f.type = envtype_name(tok.content[1])
        THEN IF Len(tok.content) < f.lev THEN leave(ungetkn(me, NoNode))
             ELSE IF Len(tok.content) > f.lev
             THEN Call(me, f, "ret_env", [Frame("parse_env") EXCEPT !.tok = tok])
             ELSE Call(me, f, "ret_line", Frame("parse_line"))
        ELSE leave(ungetkn(me, NoNode))

-----------------------------------------------------------------------------
(* The bold/italic fix-up of tokenize().                                   *)

swaptkn(tl, i, j) == [tl EXCEPT ![i + 1] = tl[j + 1], ![j + 1] = tl[i + 1]]

IsQuote(t) == t.type = "DELIM" /\ t.content \in {Q2, Q3}

\* The scan of tokenize() with its second case left without the swap: the two
\* adjacent delimiters saved on the stack stay in their order.
RECURSIVE fix_scan_without_swap(_, _, _)
fix_scan_without_swap(tl, i, st) ==
    IF i >= Len(tl) THEN [toklist |-> tl, stack |-> st]
    ELSE IF ~IsQuote(tl[i + 1]) THEN fix_scan_without_swap(tl, i + 1, st)
    ELSE IF st = <<>> THEN fix_scan_without_swap(tl, i + 1, Append(st, i))
    ELSE IF tl[st[Len(st)] + 1].content = tl[i + 1].content
    THEN fix_scan_without_swap(tl, i + 1, Front(st))
    ELSE IF Len(st) = 2 /\ st[Len(st) - 1] + 1 = st[Len(st)]
    THEN fix_scan_without_swap(tl, i + 1, Front(st))
    ELSE IF tl[i + 2].type = "DELIM" /\ tl[st[Len(st)] + 1].content = tl[i + 2].content
    THEN fix_scan_without_swap(swaptkn(tl, i, i + 1), i + 1, Front(st))
    ELSE fix_scan_without_swap(tl, i + 1, Append(st, i))

\* The scan of tokenize() with its third case tried before its second.
RECURSIVE fix_scan_next_first(_, _, _)
fix_scan_next_first(tl, i, st) ==
    IF i >= Len(tl) THEN [toklist |-> tl, stack |-> st]
    ELSE IF ~IsQuote(tl[i + 1]) THEN fix_scan_next_first(tl, i + 1, st)
    ELSE IF st = <<>> THEN fix_scan_next_first(tl, i + 1, Append(st, i))
    ELSE IF tl[st[Len(st)] + 1].content = tl[i + 1].content
    THEN fix_scan_next_first(tl, i + 1, Front(st))
    ELSE IF tl[i + 2].type = "DELIM" /\ tl[st[Len(st)] + 1].content = tl[i + 2].content
    THEN fix_scan_next_first(swaptkn(tl, i, i + 1), i + 1, Front(st))
    ELSE IF Len(st) = 2 /\ st[Len(st) - 1] + 1 = st[Len(st)]
    THEN fix_scan_next_first(swaptkn(tl, st[Len(st) - 1], st[Len(st)]), i + 1, Front(st))
    ELSE fix_scan_next_first(tl, i + 1, Append(st, i))

\* The scan of tokenize() from index i with the index stack st.
RECURSIVE fix_scan(_, _, _)
fix_scan(tl, i, st) ==
    IF i >= Len(tl) THEN [toklist |-> tl, stack |-> st]
    ELSE IF ~IsQuote(tl[i + 1]) THEN fix_scan(tl, i + 1, st)
    ELSE IF st = <<>> THEN fix_scan(tl, i + 1, Append(st, i))
    ELSE IF tl[st[Len(st)] + 1].content = tl[i + 1].content
    THEN fix_scan(tl, i + 1, Front(st))
    ELSE IF Len(st) = 2 /\ st[Len(st) - 1] + 1 = st[Len(st)]
    THEN fix_scan(swaptkn(tl, st[Len(st) - 1], st[Len(st)]), i + 1, Front(st))
    ELSE IF tl[i + 2].type = "DELIM" /\ tl[st[Len(st)] + 1].content = tl[i + 2].content
    THEN fix_scan(swaptkn(tl, i, i + 1), i + 1, Front(st))
    ELSE fix_scan(tl, i + 1, Append(st, i))

\* "Redefine all non-matched tokens as TEXT"
RECURSIVE fix_unmatched(_, _)
fix_unmatched(tl, st) ==
    IF st = <<>> THEN tl
    ELSE fix_unmatched([tl EXCEPT ![Head(st) + 1] = TEXT(str(tl[Head(st) + 1]))], Tail(st))

-----------------------------------------------------------------------------
(* The input material.                                                     *)

\* The pieces the enumerated inputs are put together from.
Vocab == {<<"=","=">>, Q2, <<"[">>, <<"]">>, <<"a">>, <<"\n">>,
          <<"<","r","e","f",">">>, <<"<","/","r","e","f",">">>}
\* The pieces of the inputs that exercise the bold/italic fix-up.
QuoteVocab == {Q2, Q3, <<"a">>}
\* The pieces of the inputs that exercise the headers.
HeaderVocab == {<<"=","=">>, <<"=","=","=">>, <<"a">>, <<"\n">>}

RECURSIVE PieceSeqs(_, _)
PieceSeqs(V, n) == IF n = 0 THEN {<<>>}
                   ELSE PieceSeqs(V, n - 1)
                        \cup {d \o p : d \in PieceSeqs(V, n - 1), p \in V}

\* a header line: '== Title ==\n'
Doc_Header ==
    <<"=","="," ","T","i","t","l","e"," ","=","=","\n">>
\* a header line the input ends in the middle of: '== Title =='
Doc_HeaderMidLine ==
    <<"=","="," ","T","i","t","l","e"," ","=","=">>
\* an opening quote run that nothing closes: "''unterminated bold"
Doc_Unterminated ==
    <<"'","'","u","n","t","e","r","m","i","n","a","t","e","d"," ","b","o","l",
      "d">>
\* a bracketed reference: '[http://x a]'
Doc_Ref ==
    <<"[","h","t","t","p",":","/","/","x"," ","a","]">>
\* an open tag inside a bracketed reference: '[http://x <ref>a</ref>]'
Doc_TagInRef ==
    <<"[","h","t","t","p",":","/","/","x"," ","<","r","e","f",">","a","<","/",
      "r","e","f",">","]">>
\* raw text, closed: '<nowiki>a</nowiki>b'
Doc_Nowiki ==
    <<"<","n","o","w","i","k","i",">","a","<","/","n","o","w","i","k","i",">",
      "b">>
\* raw text nothing closes: '<nowiki>abc'
Doc_NowikiOpen ==
    <<"<","n","o","w","i","k","i",">","a","b","c">>
\* a nested list: '* a\n** b\n* c\n'
Doc_List ==
    <<"*"," ","a","\n","*","*"," ","b","\n","*"," ","c","\n">>
\* an indented line: ': a\n'
Doc_Indent ==
    <<":"," ","a","\n">>
\* a definition list: '; t\n: d\n'
Doc_Defn ==
    <<";"," ","t","\n",":"," ","d","\n">>

\* bold and italic: "'''a''' ''b''"
Doc_Fonts ==
    <<"'","'","'","a","'","'","'"," ","'","'","b","'","'">>
\* bold and italic in a sentence: '''bold''' and ''italic''
Doc_BoldItalic ==
    <<"'","'","'","b","o","l","d","'","'","'"," ","a","n","d"," ","'","'","i","t","a","l","i","c","'","'">>
\* a link with a label: '[[a|b]]'
Doc_Link ==
    <<"[","[","a","|","b","]","]">>

\* a link with nothing in it: '[[]]'
Doc_LinkEmpty ==
    <<"[","[","]","]">>
\* a link with nothing after its bar: '[[a|]]'
Doc_LinkBarLast ==
    <<"[","[","a","|","]","]">>
\* an open tag whose attribute has no name: '<ref =a>x'
Doc_TagBadName ==
    <<"<","r","e","f"," ","=","a",">","x">>
\* an open tag whose quoted value is not closed: '<ref a="b>x'
Doc_TagOpenQuote ==
    <<"<","r","e","f"," ","a","=","\"","b",">","x">>
\* an open tag whose quoted value is empty: '<ref a="">x'
Doc_TagEmptyValue ==
    <<"<","r","e","f"," ","a","=","\"","\"",">","x">>
\* an open tag with a backslash in its quoted value: '<ref a="b\c">x'
Doc_TagBackslash ==
    <<"<","r","e","f"," ","a","=","\"","b","\\","c","\"",">","x">>
\* three quote runs, none with a partner: "''a'''a''"
Doc_QuotesThreeDeep ==
    <<"'","'","a","'","'","'","a","'","'">>
\* five quotes on either side: "'''''a'''''"
Doc_QuotesFiveFive ==
    <<"'","'","'","'","'","a","'","'","'","'","'">>
\* a close tag of another name inside a tag: '<ref>a</tt>b</ref>'
Doc_CloseTagOther ==
    <<"<","r","e","f",">","a","<","/","t","t",">","b","<","/","r","e","f",">">>
\* a close tag alone in its block, a paragraph after it: '</ref>\n\na\n'
Doc_StrayCloseTag ==
    <<"<","/","r","e","f",">","\n","\n","a","\n">>
\* a tt tag inside a bracketed reference: '[http://x <tt>a</tt>]'
Doc_TtInRef ==
    <<"[","h","t","t","p",":","/","/","x"," ","<","t","t",">","a","<","/","t","t",">","]">>
\* a list line continued: '**a\n*:b\n'
Doc_Continuation ==
    <<"*","*","a","\n","*",":","b","\n">>
\* a continuation with no list line before it: '*:a\n'
Doc_ContinuationFirst ==
    <<"*",":","a","\n">>

Scenarios == {Doc_Header, Doc_HeaderMidLine, Doc_Unterminated, Doc_Ref, Doc_TagInRef,
              Doc_Nowiki, Doc_NowikiOpen, Doc_List, Doc_Indent, Doc_Defn, Doc_Fonts,
              Doc_BoldItalic, Doc_Link, Doc_Continuation, Doc_ContinuationFirst,
              Doc_LinkEmpty, Doc_LinkBarLast, Doc_TagBadName, Doc_TagOpenQuote,
              Doc_TagEmptyValue, Doc_TagBackslash, Doc_QuotesThreeDeep,
              Doc_QuotesFiveFive, Doc_CloseTagOther, Doc_StrayCloseTag}

Inputs == PieceSeqs(Vocab, MaxPieces) \cup PieceSeqs(QuoteVocab, MaxQuotes)
          \cup PieceSeqs(HeaderVocab, MaxHeaders) \cup Scenarios

-----------------------------------------------------------------------------
(* The state machine.                                                      *)

\* No paragraph has been handed to fmtpara; the width is the default.
NothingFilled == width = DefaultWidth /\ para = <<>> /\ filled = None

\* The keywords of TexiWikiMarkup(...) with neither of the two given.
NoKeywords == [has_model |-> FALSE, sectioning_model |-> "",
               has_start |-> FALSE, sectioning_start |-> 0]

\* No Texinfo renderer was asked for; the attributes of the class stand.
NoTexi ==
    /\ keywords = NoKeywords
    /\ sectioning_model = "numbered"
    /\ sectioning_start = 0
    /\ texi = "none"
    /\ acc = None

\* One parser instance at a time.
OneParser == parsers = <<>> /\ mark_owner = <<>> /\ ref_owner = <<>>

\* A response of status s rendering template t to a request of view v.
Response(v, title, s, t) == [view |-> v, title |-> title, status |-> s, template |-> t]

\* {}: the dictionary without a key
EmptyDict == [x \in {} |-> <<>>]

\* The database of the site is empty and nothing was asked of it.
NoResponse == Response("", "", 0, "")
NoTopics == [page |-> 0, dict |-> EmptyDict]
NoSite == pages = <<>> /\ subtopics = <<>> /\ response = NoResponse /\ topics_text = NoTopics

\* A parser instance as WikiMarkup.__init__ leaves it.
Fresh(d, fromfile) ==
    [doc |-> d,
     text |-> IF fromfile THEN file_source(d).text ELSE text_source(d).text,
     file |-> IF fromfile THEN file_source(d).file ELSE text_source(d).file,
     line |-> None, pos |-> 0, toklist |-> <<>>, stack |-> <<>>, tokind |-> 0,
     newline |-> FALSE, tree |-> <<>>, frames |-> <<>>, ret |-> NoNode,
     pc |-> "idle", err |-> ""]

\* The first instance of the class, built on one of the inputs D, from a string
\* or from a file, strict or not; the lists of the class are empty.
InitOn(D) ==
    /\ \E d \in D, fromfile \in BOOLEAN :
         LET i == Fresh(d, fromfile)
         IN  /\ doc = i.doc
             /\ text = i.text
             /\ file = i.file
             /\ line = i.line
             /\ pos = i.pos
             /\ toklist = i.toklist
             /\ stack = i.stack
             /\ tokind = i.tokind
             /\ newline = i.newline
             /\ tree = i.tree
             /\ frames = i.frames
             /\ entered = <<>>
             /\ ret = i.ret
             /\ pc = i.pc
             /\ err = i.err
    /\ strict \in BOOLEAN
    /\ mark = <<>>
    /\ references = <<>>
    /\ NothingFilled
    /\ NoTexi
    /\ OneParser
    /\ NoSite

Init == InitOn(Inputs)

\* WikiMarkup(...): another parser instance of the same class is built on the
\* material d once the previous parse() has ended; the lists of the class are
\* what the earlier parses left.
WikiMarkupOn(d) ==
    /\ pc \in {"done", "error"}
    /\ Len(references) + Len(mark) < MaxShared
    /\ LET i == Fresh(d, file.open)
       IN  /\ doc' = i.doc
           /\ text' = i.text
           /\ file' = i.file
           /\ line' = i.line
           /\ pos' = i.pos
           /\ toklist' = i.toklist
           /\ stack' = i.stack
           /\ tokind' = i.tokind
           /\ newline' = i.newline
           /\ tree' = i.tree
           /\ frames' = i.frames
           /\ entered' = <<>>
           /\ ret' = i.ret
           /\ pc' = i.pc
           /\ err' = i.err
    /\ UNCHANGED <<strict, mark, references>>
    /\ UNCHANGED beside_parser

\* the next instance is built on the same material
WikiMarkup == WikiMarkupOn(doc)

\* parse(), up to its loop: tokenize() is called unless toklist is set.
parse ==
    /\ pc \in {"idle", "done"}
    /\ Len(references) + Len(mark) < MaxShared
    /\ IF toklist = <<>>
       THEN /\ pc' = "tokread"
            /\ UNCHANGED <<tokind, tree, frames, entered>>
       ELSE /\ pc' = "parse"
            /\ tokind' = 0
            /\ tree' = <<>>
            /\ frames' = <<Frame("parse")>>
            /\ entered' = <<0>>
    /\ UNCHANGED <<text, file, strict, line, pos, toklist, stack, newline, mark,
                   references, ret, err, doc>>
    /\ UNCHANGED beside_parser

Tokenized(r) ==
    /\ toklist' = toklist \o r.toks
    /\ line' = r.line
    /\ pos' = r.pos
    /\ text' = r.text
    /\ file' = r.file
    /\ pc' = r.to
    /\ err' = r.err
    /\ UNCHANGED <<strict, stack, tokind, newline, tree, mark, references, frames, entered,
                   ret, doc>>
    /\ UNCHANGED beside_parser

\* tokread(): one pass of its main loop.
tokread ==
    /\ pc = "tokread"
    /\ Tokenized(tokread_pass(line, pos, text, file))

\* tokread(): one pass of the loop that copies the text after <nowiki>.
tokread_nowiki ==
    /\ pc = "nowiki"
    /\ Len(toklist) < MaxToks
    /\ Tokenized(nowiki_pass(line, pos, text, file))

\* tokenize(), after the tokens are read: the fix-up; parse() then sets out.
tokenize ==
    /\ pc = "fixup"
    /\ LET r == fix_scan(toklist, 0, <<>>)
       IN  /\ toklist' = fix_unmatched(r.toklist, r.stack)
           /\ stack' = r.stack
    /\ pc' = "parse"
    /\ tokind' = 0
    /\ tree' = <<>>
    /\ frames' = <<Frame("parse")>>
    /\ entered' = <<0>>
    /\ UNCHANGED <<text, file, strict, line, pos, newline, mark, references, ret, err, doc>>
    /\ UNCHANGED beside_parser

Apply(m) ==
    /\ toklist' = m.toklist
    /\ tokind' = m.tokind
    /\ newline' = m.newline
    /\ tree' = m.tree
    /\ mark' = m.mark
    /\ references' = m.references
    /\ frames' = m.frames
    /\ entered' = IF Len(m.frames) > Len(frames)
                  THEN entered \o [k \in 1..(Len(m.frames) - Len(frames)) |-> m.tokind]
                  ELSE SubSeq(entered, 1, Len(m.frames))
    /\ ret' = m.ret
    /\ pc' = m.pc
    /\ err' = m.err
    /\ UNCHANGED <<text, file, strict, line, pos, stack, doc>>
    /\ UNCHANGED beside_parser

Running(fn) == pc = "parse" /\ frames # <<>> /\ frames[Len(frames)].fn = fn

parse_loop == Running("parse") /\ Apply(parse_step(Machine))
parse_block == Running("parse_block") /\ Apply(parse_block_step(Machine))
parse_block_delim == Running("parse_block_delim") /\ Apply(parse_block_delim_step(Machine))
parse_header == Running("parse_header") /\ Apply(parse_header_step(Machine))
parse_para == Running("parse_para") /\ Apply(parse_para_step(Machine))
parse_line == Running("parse_line") /\ Apply(parse_line_step(Machine))
parse_indent == Running("parse_indent") /\ Apply(parse_indent_step(Machine))
parse_fontmod == Running("parse_fontmod") /\ Apply(parse_fontmod_step(Machine))
parse_ref == Running("parse_ref") /\ Apply(parse_ref_step(Machine))
parse_link == Running("parse_link") /\ Apply(parse_link_step(Machine))
parse_inline_delim == Running("parse_inline_delim") /\ Apply(parse_inline_delim_step(Machine))
parse_tag == Running("parse_tag") /\ Apply(parse_tag_step(Machine))
parse_env == Running("parse_env") /\ Apply(parse_env_step(Machine))

\* Any number of parser instances, one after the other, and any number of
\* parse() calls on each.
Next ==
    \/ WikiMarkup
    \/ parse
    \/ tokread
    \/ tokread_nowiki
    \/ tokenize
    \/ parse_loop
    \/ parse_block
    \/ parse_block_delim
    \/ parse_header
    \/ parse_para
    \/ parse_line
    \/ parse_indent
    \/ parse_fontmod
    \/ parse_ref
    \/ parse_link
    \/ parse_inline_delim
    \/ parse_tag
    \/ parse_env

Spec == Init /\ [][Next]_vars

\* parse(), called once on the first instance of the class.
first_parse == pc = "idle" /\ parse

NextOne ==
    \/ first_parse
    \/ tokread
    \/ tokread_nowiki
    \/ tokenize
    \/ parse_loop
    \/ parse_block
    \/ parse_block_delim
    \/ parse_header
    \/ parse_para
    \/ parse_line
    \/ parse_indent
    \/ parse_fontmod
    \/ parse_ref
    \/ parse_link
    \/ parse_inline_delim
    \/ parse_tag
    \/ parse_env

SingleParse == Init /\ [][NextOne]_vars

\* Parses one after the other, each on material of its own: a reference with
\* a tag in it (parse() raises), a reference, bold and italic text.
AgainDocs == {Doc_TtInRef, Doc_Ref, Doc_Fonts}

\* WikiMarkup(...) on any of these
WikiMarkup_again == \E d \in AgainDocs : WikiMarkupOn(d)

AgainNext ==
    \/ WikiMarkup_again
    \/ parse
    \/ tokread
    \/ tokenize
    \/ parse_loop
    \/ parse_block
    \/ parse_block_delim
    \/ parse_para
    \/ parse_fontmod
    \/ parse_ref
    \/ parse_inline_delim
    \/ parse_tag

AgainSpec == InitOn(AgainDocs) /\ [][AgainNext]_vars

-----------------------------------------------------------------------------
(* What is checked of the parser.                                          *)

\* tokenize() is through: the tokens are read and the fix-up has run.
TokenizeDone == pc \in {"parse", "done"}

\* C1: an unmatched quote-run delimiter is rewritten to a TEXT token that holds
\* its spelling: once tokenize() is through, every token the fix-up left on its
\* stack is the text '' or the text ''', and for the input ''unterminated bold
\* the first token is the text '' (so that the paragraph reads as the input).
C1_UnmatchedQuoteIsLiteral ==
    TokenizeDone =>
        /\ \A k \in 1..Len(stack) : toklist[stack[k] + 1] \in {TEXT(Q2), TEXT(Q3)}
        /\ doc = Doc_Unterminated =>
              /\ toklist[1] = TEXT(Q2)
              /\ pc = "done" => tree = <<SeqNode("PARA", <<TEXT(Doc_Unterminated)>>)>>

\* C1, what the code does: the token is rewritten to the text of str(token),
\* the JSON dump of the delimiter node, and the paragraph begins with it.
C1_JsonDumpInParagraph ==
    /\ pc = "done"
    /\ doc = Doc_Unterminated
    /\ toklist[1] = TEXT(str(DELIM(Q2, FALSE, FALSE)))
    /\ tree = <<SeqNode("PARA", <<TEXT(str(DELIM(Q2, FALSE, FALSE))
                                        \o SubSeq(Doc_Unterminated, 3, Len(Doc_Unterminated)))>>)>>

\* parse() is about to run its loop over the blocks.
ParseStarts == pc = "parse" /\ frames = <<Frame("parse")>>

\* The ref tags of a tree, in the order in which their closing tags stand.
RECURSIVE RefsOf(_)
RECURSIVE RefsOfSeq(_)
RefsOf(n) ==
    IF n.type \in {"SEQ", "PARA", "PRE", "IT", "BOLD", "LINK", "TMPL", "ENV"}
    THEN RefsOfSeq(n.content)
    ELSE IF n.type \in {"HDR", "REF", "ELT", "IND"} THEN RefsOf(n.content)
    ELSE IF n.type = "TAG"
    THEN RefsOf(n.content) \o (IF n.tag = S_ref THEN <<n>> ELSE <<>>)
    ELSE <<>>
RefsOfSeq(ns) == IF ns = <<>> THEN <<>> ELSE RefsOf(Head(ns)) \o RefsOfSeq(Tail(ns))

Doc_Footnote == <<"<","r","e","f",">","a","<","/","r","e","f",">">>
Doc_FootnoteInHeader == <<"=","=","<","r","e","f",">","<","/","r","e","f",">">>

\* C2: footnote numbering is scoped to one parse.  A ref tag is numbered with
\* the length of references at its construction, so the first ref tag of a
\* parse gets index 0, and references holds the ref tags of that parse only,
\* exactly when the parse starts on an empty list: whatever instances parsed
\* before, and however often parse() was called, references is empty when
\* parse() starts.
C2_NumberingIsPerParse == ParseStarts => references = <<>>

\* C2, what the code does: the list belongs to the class and is never emptied;
\* the only ref tag of the second parse of <ref>a</ref> has index 1, and the
\* list holds the tag of the first parse as well.
C2_SecondParseNumbersFromOne ==
    /\ pc = "done"
    /\ doc = Doc_Footnote
    /\ Len(references) = 2
    /\ RefsOfSeq(tree) = <<references[2]>>
    /\ references[2].idx = 1

\* C3: within one parse the ref tags are numbered as they are met and never
\* again: when the first parse() of the class returns, references is the list
\* of the ref tags of the tree, numbered 0, 1, 2, ... in their order, also
\* when a ref tag lies in a header or an inline construct that fails and is
\* parsed again.
C3_OneEntryPerRefOfTheTree ==
    pc = "done" =>
        /\ references = RefsOfSeq(tree)
        /\ \A k \in 1..Len(references) : references[k].idx = k - 1

\* C3, what the code does: the ref tag of ==<ref></ref> is constructed by
\* parse_header, which fails, and again by parse_para: the tree holds one ref
\* tag, numbered 1, and references holds two.
C3_RefOfFailedHeaderCountedTwice ==
    /\ pc = "done"
    /\ doc = Doc_FootnoteInHeader
    /\ Len(references) = 2
    /\ Len(RefsOfSeq(tree)) = 1
    /\ RefsOfSeq(tree)[1].idx = 1

\* C4: parse() terminates on every token list that tokenize() hands it (each
\* ends with NIL, the last line with or without a NEWLINE before it).  The
\* parser is deterministic, so an iteration of a loop that leaves the whole
\* state as it was is repeated for ever: a parse() that terminates has, in every
\* state in which it runs, a next step that changes the state.
C4_ParseTerminates == pc = "parse" => ENABLED <<Next>>_vars

\* C4, what the code does: parse_header has no branch for NIL, and getkn() at
\* the end of the list hands out NIL again and again: on == Title == read from
\* a file, with no NEWLINE before the end, parse_header stands at the end of
\* the list and its loop leaves everything as it is.
C4_HeaderLoopsAtEndOfInput ==
    /\ Running("parse_header")
    /\ doc = Doc_HeaderMidLine
    /\ tokind = Len(toklist)
    /\ toklist[Len(toklist)] = NIL
    /\ ENABLED parse_header
    /\ ~ENABLED <<parse_header>>_vars

\* tokenize() has handed parse() the whole token list, NIL at its end.
TokensRead == toklist # <<>> /\ toklist[Len(toklist)] = NIL

\* C5: without strict, parse() never aborts with an error: whatever the token
\* list, a construct that fails or is left open at the end of the input
\* becomes literal text and parse() returns a tree; so no parse() that has its
\* token list ends with an exception.
C5_NonStrictNeverAborts == (~strict /\ TokensRead) => pc # "error"

\* C5, what the code does: an open tag inside a bracketed reference makes
\* parse_ref call append on the builtin list, which raises TypeError.
C5_TagInRefRaises ==
    /\ ~strict
    /\ doc = Doc_TagInRef
    /\ TokensRead
    /\ pc = "error"
    /\ err = "TypeError"

\* C6: a nowiki that nothing closes is never fatal: the loop that copies the
\* raw text never raises, and once the line source is exhausted (no line is
\* left to search) it is left, so that the token list ends, with NIL; this for
\* the text source and for the file source.
C6_OpenNowikiIsNotFatal ==
    [][pc = "nowiki" => /\ pc' # "error"
                        /\ Falsy(line) => pc' # "nowiki"]_vars

\* C6, what the code does with <nowiki>abc given as a string: the raw text is
\* emitted, input() returns None, and the search for the closing tag in None
\* raises TypeError (the loop expects StopIteration); no NIL is emitted.
C6_OpenNowikiRaises ==
    /\ doc = Doc_NowikiOpen
    /\ ~file.open
    /\ toklist = <<TEXT(<<"a","b","c","\n">>)>>
    /\ line = None
    /\ pc = "error"
    /\ err = "TypeError"

\* The literal text of a list of nodes: that of its TEXT nodes, and of the
\* paragraphs and sequences among them, in order.
RECURSIVE TextOf(_)
TextOf(ns) ==
    IF ns = <<>> THEN <<>>
    ELSE (IF Head(ns).type = "TEXT" THEN Head(ns).content
          ELSE IF Head(ns).type \in {"PARA", "SEQ"} THEN TextOf(Head(ns).content)
          ELSE <<>>) \o TextOf(Tail(ns))

\* C7: == Title == read from a file that ends right after the closing ==, so
\* that NIL and not NEWLINE follows it, produces no header: parse() completes
\* (it raises nothing and never stands still), and its tree is made of
\* paragraphs whose literal text is == Title ==.
C7_HeaderMidLineIsLiteral ==
    (doc = Doc_HeaderMidLine /\ file.open) =>
        /\ pc # "error"
        /\ pc = "parse" => ENABLED <<Next>>_vars
        /\ pc = "done" => /\ \A k \in 1..Len(tree) : tree[k].type = "PARA"
                          /\ TextOf(tree) = Doc_HeaderMidLine

\* C7, what the code does: the first attempt at a header fails at the closing
\* == and leaves the paragraph ==Title (the blanks are lost); the closing ==
\* then opens a header of its own, which reads NIL for ever.
C7_HeaderMidLineNeverCompletes ==
    /\ doc = Doc_HeaderMidLine
    /\ file.open
    /\ tree = <<SeqNode("PARA", <<TEXT(<<"=","=","T","i","t","l","e">>)>>)>>
    /\ Running("parse_header")
    /\ tokind = Len(toklist)
    /\ toklist[tokind - 1] = DELIM(<<"=","=">>, TRUE, FALSE)
    /\ toklist[tokind] = NIL
    /\ ~ENABLED <<Next>>_vars

\* parse_header returns in this step.
HeaderReturns == Running("parse_header") /\ Len(frames') < Len(frames)

\* The token the loop of parse_header reads next is the opening delimiter
\* again, in the same spelling, with NEWLINE right after it.
HeaderCloses ==
    /\ tokind + 2 <= Len(toklist)
    /\ toklist[tokind + 1].type = "DELIM"
    /\ toklist[tokind + 1].content = Top(Machine).tok.content
    /\ toklist[tokind + 2].type = "NL"

\* C8: a header is recognized exactly when the scan that follows the opening
\* run of = finds a delimiter of the identical spelling with NEWLINE right
\* after it: parse_header returns a header then and only then.  The header's
\* level is the length of the opening run, the cursor stands after that
\* NEWLINE, and after one further NEWLINE if one follows; without a header the
\* cursor is back where the scan began.
C8_HeaderRecognition ==
    [][HeaderReturns =>
         LET open_tok == Top(Machine).tok
             open == open_tok.content
             more == tokind + 3 <= Len(toklist) /\ toklist[tokind + 3].type = "NL"
             \* the mark of this scan, pushed in its first step, and those below
             first == Top(Machine).pc = "enter"
             began == IF first THEN tokind ELSE mark[Len(mark)]
             below == IF first THEN mark ELSE Front(mark)
         IN  /\ ret'.type = "HDR" <=> HeaderCloses
             /\ ret'.type # "HDR" => ret' = NoNode
             /\ HeaderCloses =>
                   /\ \A i \in 1..Len(open) : open[i] = "="
                   /\ ret'.level = Len(open)
                   /\ tokind' = tokind + (IF more THEN 3 ELSE 2)
                   /\ mark' = below
             /\ ~HeaderCloses =>
                   /\ tokind' = began
                   /\ toklist'[tokind'] = open_tok
                   /\ mark' = below]_vars

\* C8: == Title == and its NEWLINE, given as a string (which ends every line
\* with a NEWLINE and so adds one): parse_header has returned the header of
\* level 2 and the cursor stands after both NEWLINEs.
C8_HeaderOfLevelTwo ==
    /\ doc = Doc_Header
    /\ ~file.open
    /\ Running("parse_block_delim")
    /\ ret = [type |-> "HDR", level |-> 2,
              content |-> SeqNode("SEQ", <<TEXT(<<"T","i","t","l","e">>)>>)]
    /\ toklist[tokind - 1] = NL
    /\ toklist[tokind] = NL
    /\ toklist[tokind + 1] = NIL

\* A token of the list falls back to literal text in this step: a delimiter
\* or a tag is rewritten in place to a TEXT token.
Degrades ==
    \E i \in 1..Len(toklist) :
        /\ i <= Len(toklist')
        /\ toklist[i].type # "TEXT"
        /\ toklist'[i].type = "TEXT"

\* C9: under strict no markup ambiguity falls back to literal text (the parse
\* is aborted with the unexpected-token error instead): neither the fix-up of
\* tokenize() nor a failed header, link, reference or tag rewrites a token to
\* TEXT, and a strict parse() never returns with a quote run the fix-up left
\* unmatched.
C9_StrictNeverFallsBack ==
    /\ [][strict => ~Degrades]_vars
    /\ [](strict /\ pc = "done" => stack = <<>>)

\* C9, what the code does: strict is read in one place, the last branch of
\* parse_para; a strict parse() of ''unterminated bold rewrites the quote run
\* to text and returns its tree.
C9_StrictParseFallsBack ==
    /\ strict
    /\ doc = Doc_Unterminated
    /\ pc = "done"
    /\ stack = <<0>>
    /\ toklist[1].type = "TEXT"
    /\ Len(tree) = 1

\* How many tokens of tl are quote-run delimiters spelled q.
QuoteCount(tl, q) ==
    Cardinality({i \in 1..Len(tl) : tl[i].type = "DELIM" /\ tl[i].content = q})

\* C10: the fix-up of tokenize() leaves every surviving quote-run delimiter
\* with a partner: each of the spellings '' and ''' survives an even number
\* of times, every index left on the stack holds a TEXT token, and the
\* delimiters rewritten are exactly the ones left on the stack.
C10_SurvivingQuotesPairUp ==
    [][pc = "fixup" =>
          /\ \A q \in {Q2, Q3} : QuoteCount(toklist', q) % 2 = 0
          /\ \A k \in 1..Len(stack') : toklist'[stack'[k] + 1].type = "TEXT"
          /\ QuoteCount(toklist, Q2) + QuoteCount(toklist, Q3)
                = QuoteCount(toklist', Q2) + QuoteCount(toklist', Q3) + Len(stack')
      ]_vars

\* C10, its case: tokenize() has just run on five quotes, a and three quotes;
\* the second case of the scan swapped the two opening delimiters, the bold
\* pair survives and the unpaired italic opener is text.
C10_SwappedPairSurvives ==
    /\ pc = "parse"
    /\ tokind = 0
    /\ frames = <<Frame("parse")>>
    /\ stack = <<0>>
    /\ Len(toklist) = 5
    /\ toklist[1].type = "TEXT"
    /\ IsQuote(toklist[2]) /\ toklist[2].content = Q3
    /\ IsQuote(toklist[4]) /\ toklist[4].content = Q3

-----------------------------------------------------------------------------
(* The HTML backend (wiki2html.py): format() of the nodes of a tree.  Links *)
(* and templates are formatted through the namespace tables of wikins and  *)
(* are left out; tokens that reach a tree unparsed have no format().       *)

\* The decimal numeral of n.
RECURSIVE decimal(_)
decimal(n) ==
    LET d == <<"0","1","2","3","4","5","6","7","8","9">>
    IN  IF n < 10 THEN <<d[n + 1]>> ELSE decimal(n \div 10) \o <<d[(n % 10) + 1]>>

\* html.escape(s, quote=False)
html_escape(s) ==
    Flatten([i \in 1..Len(s) |->
                IF s[i] = "&" THEN <<"&","a","m","p",";">>
                ELSE IF s[i] = "<" THEN <<"&","l","t",";">>
                ELSE IF s[i] = ">" THEN <<"&","g","t",";">>
                ELSE <<s[i]>>])

\* HtmlWikiMarkup.envt
envt_hdr(type) ==
    IF type = "unnumbered" THEN <<"u","l">> ELSE IF type = "numbered" THEN <<"o","l">> ELSE <<"d","l">>
envt_elt(type, n) ==
    IF type = "defn" THEN (IF n = 0 THEN <<"d","t">> ELSE <<"d","d">>) ELSE <<"l","i">>

\* s repeated n times
RECURSIVE repeat(_, _)
repeat(s, n) == IF n = 0 THEN <<>> ELSE s \o repeat(s, n - 1)

\* x.format() of the HTML node classes; nested is parser.nested and refs is
\* parser.references.
RECURSIVE html_format(_, _, _)
RECURSIVE html_seq(_, _, _)
RECURSIVE html_notes(_, _, _, _)
html_seq(ns, nested, refs) ==
    IF ns = <<>> THEN <<>>
    ELSE html_format(Head(ns), nested, refs) \o html_seq(Tail(ns), nested, refs)

\* the <li> entries of the references tag, numbered from k
html_notes(rs, k, nested, refs) ==
    IF rs = <<>> THEN <<>>
    ELSE <<"<","l","i"," ","i","d","=","\"","c","i","t","e","_","n","o","t","e","-">> \o decimal(k) \o <<"\"",">">>
         \o <<"<","s","p","a","n"," ","c","l","a","s","s","=","\"","m","w","-","c","i","t","e","-","b","a","c","k","l","i","n","k","\"",">">>
         \o <<"<","b",">","<","a"," ","h","r","e","f","=","\"","#","c","i","t","e","_","r","e","f","-">> \o decimal(k) \o <<"\"",">","^","<","/","a",">","<","/","b",">">>
         \o <<"<","/","s","p","a","n",">">>
         \o <<"<","s","p","a","n"," ","c","l","a","s","s","=","\"","r","e","f","e","r","e","n","c","e","-","t","e","x","t","\"",">">>
         \o html_format(Head(rs).content, nested, refs)
         \o <<"<","/","s","p","a","n",">">>
         \o <<"<","/","l","i",">","\n">>
         \o html_notes(Tail(rs), k + 1, nested, refs)

html_format(n, nested, refs) ==
    CASE n.type = "TEXT" -> html_escape(n.content)
      [] n.type = "SEQ"  -> html_seq(n.content, nested, refs)
      [] n.type = "IT"   -> <<"<","i",">">> \o html_seq(n.content, nested, refs) \o <<"<","/","i",">">>
      [] n.type = "BOLD" -> <<"<","b",">">> \o html_seq(n.content, nested, refs) \o <<"<","/","b",">">>
      [] n.type = "PARA" -> <<"<","p",">">> \o html_seq(n.content, nested, refs) \o <<"<","/","p",">","\n">>
      [] n.type = "PRE"  ->
            IF nested # 0 THEN html_seq(n.content, nested, refs)
            ELSE <<"<","p","r","e",">">> \o html_seq(n.content, nested, refs) \o <<"<","/","p","r","e",">">>
      [] n.type = "HDR"  ->
            LET level == IF n.level > 6 THEN 6 ELSE n.level
            IN  <<"<","h">> \o decimal(level) \o <<">">> \o html_format(n.content, nested, refs)
                \o <<"<","/","h">> \o decimal(level) \o <<">","\n","\n">>
      [] n.type = "BAR"  -> <<"<","h","r","/",">","\n">>
      [] n.type = "ENV"  ->
            <<"<">> \o envt_hdr(n.envtype) \o <<">">>
            \o Flatten([i \in 1..Len(n.content) |->
                   <<"<">> \o envt_elt(n.envtype, n.content[i].subtype) \o <<">">>
                   \o html_format(n.content[i].content, nested, refs)
                   \o <<"<","/">> \o envt_elt(n.envtype, n.content[i].subtype) \o <<">">>])
            \o <<"<","/">> \o envt_hdr(n.envtype) \o <<">">>
      [] n.type = "IND"  ->
            repeat(<<"<","d","l",">","<","d","d",">">>, n.level) \o html_format(n.content, nested, refs)
            \o repeat(<<"<","/","d","d",">","<","/","d","l",">">>, n.level)
      [] n.type = "REF"  ->
            LET t == html_format(n.content, nested, refs)
            IN  <<"<","a"," ","h","r","e","f","=","\"">> \o n.ref \o <<"\"",">">> \o (IF t # <<>> THEN t ELSE n.ref)
                \o <<"<","/","a",">">>
      [] n.type = "TAG" /\ n.tag = S_code ->
            <<"<","p","r","e",">","<","c","o","d","e",">">> \o html_format(n.content, nested + 1, refs)
            \o <<"<","/","c","o","d","e",">","<","/","p","r","e",">">>
      [] n.type = "TAG" /\ n.tag = S_ref ->
            LET k == decimal(n.idx + 1)
            IN  <<"<","s","u","p"," ","i","d","=","\"","c","i","t","e","_","r","e","f","-">> \o k \o <<"\""," ","c","l","a","s","s","=","\"","r","e","f","e","r","e","n","c","e","\"",">","<","a"," ","n","a","m","e","=","\"","c","i","t","e","_","r","e","f","-">>
                \o k \o <<"\""," ","h","r","e","f","=","#","c","i","t","e","_","n","o","t","e","-">> \o k \o <<"\"",">">> \o k \o <<"<","/","a",">","<","/","s","u","p",">">>
      [] n.type = "TAG" /\ n.tag = S_references ->
            <<"<","d","i","v"," ","c","l","a","s","s","=","\"","r","e","f","e","r","e","n","c","e","s","\"",">","\n">> \o <<"<","o","l"," ","c","l","a","s","s","=","\"","r","e","f","e","r","e","n","c","e","s","\"",">","\n">>
            \o html_notes(refs, 1, nested, refs) \o <<"<","/","o","l",">","\n","<","/","d","i","v",">","\n">>
      [] n.type = "TAG" /\ n.tag \notin {S_code, S_ref, S_references} ->
            <<"<">> \o n.tag \o (IF n.args # <<>> THEN <<" ">> \o n.args ELSE <<>>) \o <<">">>
            \o html_format(n.content, nested, refs) \o <<"<","/">> \o n.tag \o <<">">>

\* HtmlWikiMarkup.__str__
html_str(t, refs) == html_seq(t, 0, refs)

-----------------------------------------------------------------------------
(* The plain text backend (wiki2text.py).  Links and templates are left    *)
(* out, as in the HTML backend.                                            *)

\* str.upper() on the letters of the inputs
upper(s) ==
    LET lo == <<"a","b","c","d","e","f","g","h","i","j","k","l","m","n","o","p","q","r","s","t","u","v","w","x","y","z">>
        up == <<"A","B","C","D","E","F","G","H","I","J","K","L","M","N","O","P","Q","R","S","T","U","V","W","X","Y","Z">>
    IN  [i \in 1..Len(s) |->
            IF \E k \in 1..26 : lo[k] = s[i]
            THEN up[CHOOSE k \in 1..26 : lo[k] = s[i]] ELSE s[i]]

\* s.lstrip(" ")
RECURSIVE lstrip(_)
lstrip(s) == IF s # <<>> /\ s[1] = " " THEN lstrip(Tail(s)) ELSE s

\* s.rstrip("\n")
RECURSIVE rstrip_nl(_)
rstrip_nl(s) == IF s # <<>> /\ s[Len(s)] = "\n" THEN rstrip_nl(Front(s)) ELSE s

endswith(s, c) == s # <<>> /\ s[Len(s)] = c

\* input.split(): the words between runs of whitespace
RECURSIVE words(_, _)
words(s, cur) ==
    IF s = <<>> THEN (IF cur = <<>> THEN <<>> ELSE <<cur>>)
    ELSE IF s[1] \in WhiteSpace
    THEN (IF cur = <<>> THEN <<>> ELSE <<cur>>) \o words(Tail(s), <<>>)
    ELSE words(Tail(s), Append(cur, s[1]))

\* The loop of fmtpara with the test for the end of the line leaving out the
\* blanks that go before the word.
RECURSIVE fill_ignoring_blanks(_, _, _, _, _)
fill_ignoring_blanks(ws, wd, output, linebuf, length) ==
    IF ws = <<>> THEN output \o linebuf
    ELSE LET s    == Head(ws)
             wlen == Len(s)
             wsc  == IF Len(linebuf) = 0 THEN 0
                     ELSE IF endswith(linebuf, ".") THEN 2 ELSE 1
         IN  IF length + wlen > wd
             THEN fill_ignoring_blanks(Tail(ws), wd, output \o linebuf \o <<"\n">>, s, wlen)
             ELSE fill_ignoring_blanks(Tail(ws), wd, output,
                                       linebuf \o repeat(<<" ">>, wsc) \o s,
                                       length + wsc + wlen)

\* The loop of fmtpara over the words ws.
RECURSIVE fill(_, _, _, _, _)
fill(ws, wd, output, linebuf, length) ==
    IF ws = <<>> THEN output \o linebuf
    ELSE LET s    == Head(ws)
             wlen == Len(s)
             wsc  == IF Len(linebuf) = 0 THEN 0
                     ELSE IF endswith(linebuf, ".") THEN 2 ELSE 1
         IN  IF length + wsc + wlen > wd
             THEN fill(Tail(ws), wd, output \o linebuf \o <<"\n">>, s, wlen)
             ELSE fill(Tail(ws), wd, output, linebuf \o repeat(<<" ">>, wsc) \o s,
                       length + wsc + wlen)

\* TextWikiMarkup.fmtpara
fmtpara(string, wd) == fill(words(string, <<>>), wd, <<>>, <<>>, 0)

\* TextWikiMarkup.indent
indent(lev, txt) ==
    IF Find(txt, 0, "\n") = -1 THEN repeat(<<" ">>, lev) \o txt
    ELSE LET parts == split(txt, <<>>)
             s == Flatten([i \in 1..Len(parts) |->
                     IF parts[i] # <<>> THEN repeat(<<" ">>, lev) \o parts[i] \o <<"\n">>
                     ELSE <<>>])
         IN  IF ~endswith(txt, "\n") THEN rstrip_nl(s) ELSE s

\* x.format() of the text node classes; wd is parser.width and refs is
\* parser.references.
RECURSIVE text_format(_, _, _)
RECURSIVE text_cat(_, _, _)
RECURSIVE text_seq(_, _, _, _)
RECURSIVE text_it(_, _, _, _)
RECURSIVE text_bold(_, _, _, _)
RECURSIVE text_env(_, _, _, _, _, _)
RECURSIVE text_notes(_, _, _)

\* the formats of the nodes ns one after the other
text_cat(ns, wd, refs) ==
    IF ns = <<>> THEN <<>>
    ELSE text_format(Head(ns), wd, refs) \o text_cat(Tail(ns), wd, refs)

\* the loop of TextSeqNode.format
text_seq(ns, string, wd, refs) ==
    IF ns = <<>> THEN string
    ELSE LET sp == IF Len(string) > 1 /\ string[Len(string)] \notin WhiteSpace
                   THEN <<" ">> ELSE <<>>
         IN  text_seq(Tail(ns), string \o sp \o text_format(Head(ns), wd, refs),
                      wd, refs)

\* the loop of TextItNode.format
text_it(ns, string, wd, refs) ==
    IF ns = <<>> THEN string
    ELSE LET s == text_format(Head(ns), wd, refs)
         IN  text_it(Tail(ns), IF s # <<>> THEN string \o <<" ">> \o s ELSE string,
                     wd, refs)

\* the loop of TextBoldNode.format
text_bold(ns, string, wd, refs) ==
    IF ns = <<>> THEN string
    ELSE text_bold(Tail(ns),
                   string \o (IF endswith(string, ".") THEN <<" ", " ">> ELSE <<" ">>)
                          \o text_format(Head(ns), wd, refs),
                   wd, refs)

\* the loop of TextEnvNode.format over the elements es; n numbers them
text_env(es, type, lev, string, n, p) ==
    IF es = <<>> THEN string
    ELSE LET s0 == IF ~endswith(string, "\n") THEN string \o <<"\n">> ELSE string
             x  == text_format(Head(es).content, p.width, p.refs)
             s1 == IF type = "unnumbered"
                   THEN s0 \o indent(lev, <<"-", " ">> \o lstrip(x))
                   ELSE IF type = "numbered"
                   THEN s0 \o indent(lev, decimal(n) \o <<".", " ">> \o x)
                   ELSE IF Head(es).subtype = 0 THEN s0 \o indent(lev - 1, x)
                   ELSE s0 \o indent(lev + 3, x)
             s2 == IF ~endswith(s1, "\n") THEN s1 \o <<"\n">> ELSE s1
         IN  text_env(Tail(es), type, lev, s2, IF type = "numbered" THEN n + 1 ELSE n, p)

\* the lines of the references tag
text_notes(rs, wd, refs) ==
    IF rs = <<>> THEN <<>>
    ELSE <<"[">> \o decimal(Head(rs).idx + 1) \o <<"]","."," ">>
         \o text_format(Head(rs).content, wd, refs) \o <<"\n">>
         \o text_notes(Tail(rs), wd, refs)

text_format(n, wd, refs) ==
    CASE n.type = "TEXT" -> n.content
      [] n.type = "SEQ"  -> text_seq(n.content, <<>>, wd, refs)
      [] n.type = "PRE"  -> text_cat(n.content, wd, refs) \o <<"\n">>
      [] n.type = "PARA" -> fmtpara(text_cat(n.content, wd, refs), wd) \o <<"\n", "\n">>
      [] n.type = "IT"   ->
            <<"_">> \o lstrip(text_it(n.content, <<>>, wd, refs)) \o <<"_">>
      [] n.type = "BOLD" -> upper(text_bold(n.content, <<>>, wd, refs))
      [] n.type = "BAR"  ->
            LET w == IF wd < 5 THEN 5 ELSE wd
            IN  <<"\n", " ", " ">> \o repeat(<<"-">>, w - 5) \o <<" ", " ", "\n">>
      [] n.type = "HDR"  ->
            <<"\n">> \o repeat(<<"*">>, n.level) \o <<" ">>
            \o lstrip(text_format(n.content, wd, refs)) \o <<"\n", "\n">>
      [] n.type = "REF"  ->
            LET t == text_format(n.content, wd, refs)
            IN  IF t # <<>> THEN t \o <<" ","(","s","e","e"," ">> \o n.ref \o <<")"," ">>
                ELSE <<"s","e","e"," ">> \o n.ref
      [] n.type = "ENV"  ->
            text_env(n.content, n.envtype,
                     IF n.level > wd - 4 THEN 1 ELSE n.level, <<>>, 1,
                     [width |-> wd, refs |-> refs])
      [] n.type = "IND"  ->
            repeat(<<" ">>, n.level) \o text_format(n.content, wd, refs) \o <<"\n">>
      [] n.type = "TAG" /\ n.tag = S_code -> text_format(n.content, wd, refs)
      [] n.type = "TAG" /\ n.tag = S_ref  -> <<"[">> \o decimal(n.idx + 1) \o <<"]">>
      [] n.type = "TAG" /\ n.tag = S_references ->
            <<"\n","R","e","f","e","r","e","n","c","e","s",":","\n">> \o text_notes(refs, wd, refs)
      [] n.type = "TAG" /\ n.tag \notin {S_code, S_ref, S_references} ->
            <<"<">> \o n.tag \o (IF n.args # <<>> THEN <<" ">> \o n.args ELSE <<>>) \o <<">">>
            \o text_format(n.content, wd, refs) \o <<"<","/">> \o n.tag \o <<">">>

\* TextWikiMarkup.__str__
text_str(t, wd, refs) == text_cat(t, wd, refs)

-----------------------------------------------------------------------------
(* C11: nesting of lists.                                                  *)

\* The tree of '* a\n** b\n* c\n'.
Tree_List ==
    <<[type |-> "ENV", envtype |-> "unnumbered", level |-> 1,
       content |->
         <<[type |-> "ELT", subtype |-> 0,
            content |-> SeqNode("SEQ",
               <<TEXT(<<"a">>),
                 [type |-> "ENV", envtype |-> "unnumbered", level |-> 2,
                  content |-> <<[type |-> "ELT", subtype |-> 0,
                                 content |-> SeqNode("SEQ", <<TEXT(<<"b">>)>>)]>>]>>)],
           [type |-> "ELT", subtype |-> 0,
            content |-> SeqNode("SEQ", <<TEXT(<<"c">>)>>)]>>]>>

\* C11: '* a\n** b\n* c\n' parses as one unnumbered environment of level 1
\* with two elements, the first holding a and then an unnumbered environment
\* of level 2 whose one element is b, the second holding c; the HTML backend
\* renders it with the inner <ul> inside the first <li>.
C11_ListNestingFollowsRunLength ==
    (pc = "done" /\ doc = Doc_List) =>
        /\ tree = Tree_List
        /\ html_str(tree, references) = <<"<","u","l",">","<","l","i",">","a","<","u","l",">","<","l","i",">","b","<","/","l","i",">","<","/","u","l",">","<","/","l","i",">","<","l","i",">","c","<","/","l","i",">","<","/","u","l",">">>

\* C11, its case: parse() has returned on the list, and the first element of
\* the outer environment holds the inner one.
C11_ListParsed ==
    /\ pc = "done"
    /\ doc = Doc_List
    /\ Len(tree) = 1
    /\ tree[1].type = "ENV"
    /\ Len(tree[1].content) = 2
    /\ tree[1].content[1].content.content[2].type = "ENV"

-----------------------------------------------------------------------------
(* C12: font modifiers.                                                    *)

\* The tree of '''bold''' and ''italic''.
Tree_BoldItalic ==
    <<SeqNode("PARA", <<SeqNode("BOLD", <<TEXT(<<"b","o","l","d">>)>>),
                        TEXT(<<" ","a","n","d"," ">>),
                        SeqNode("IT", <<TEXT(<<"i","t","a","l","i","c">>)>>)>>)>>

\* C12: '''bold''' and ''italic'' parses to a paragraph of Bold(bold), the
\* text " and ", Italic(italic), in that order; the HTML backend renders
\* <b>bold</b> and <i>italic</i> (in its paragraph tags), the text backend
\* BOLD and _italic_ (and the blank line that ends a paragraph).
C12_QuoteRunsBecomeFontModifiers ==
    (pc = "done" /\ doc = Doc_BoldItalic) =>
        /\ tree = Tree_BoldItalic
        /\ html_str(tree, references) = <<"<","p",">","<","b",">","b","o","l","d","<","/","b",">"," ","a","n","d"," ","<","i",">","i","t","a","l","i","c","<","/","i",">","<","/","p",">","\n">>
        /\ text_str(tree, DefaultWidth, references) = <<"B","O","L","D"," ","a","n","d"," ","_","i","t","a","l","i","c","_","\n","\n">>

\* C12, its case: parse() has returned on the sentence; both quote pairs were
\* matched by the fix-up and parse_fontmod closed both runs.
C12_BoldItalicParsed ==
    /\ pc = "done"
    /\ doc = Doc_BoldItalic
    /\ stack = <<>>
    /\ Len(tree) = 1
    /\ Len(tree[1].content) = 3
    /\ tree[1].content[1].type = "BOLD"
    /\ tree[1].content[3].type = "IT"

-----------------------------------------------------------------------------
(* C13: the fill of paragraphs, fmtpara on its own.                        *)

\* The characters of the paragraphs: a letter, the full stop (two blanks
\* follow it), the blank.
FillVocab == {"a", ".", " "}

\* The strings over V of at most n characters.
RECURSIVE Strings(_, _)
Strings(V, n) == IF n = 0 THEN {<<>>}
                 ELSE Strings(V, n - 1) \cup {Append(s, c) : s \in Strings(V, n - 1), c \in V}

\* No parser is at work.
ParserUnused ==
    LET i == Fresh(<<>>, FALSE)
    IN  /\ doc = i.doc /\ text = i.text /\ file = i.file /\ line = i.line
        /\ pos = i.pos /\ toklist = i.toklist /\ stack = i.stack
        /\ tokind = i.tokind /\ newline = i.newline /\ tree = i.tree
        /\ frames = i.frames /\ entered = <<>> /\ ret = i.ret /\ pc = i.pc /\ err = i.err
        /\ strict = FALSE /\ mark = <<>> /\ references = <<>>

\* A text backend of some width, and the string of a paragraph.
FillInit ==
    /\ ParserUnused
    /\ width \in 0..MaxWidth
    /\ para \in Strings(FillVocab, MaxPara)
    /\ filled = None
    /\ NoTexi
    /\ OneParser
    /\ NoSite

\* TextParaNode.format calls parser.fmtpara(string).
call_fmtpara ==
    /\ filled = None
    /\ filled' = fmtpara(para, width)
    /\ UNCHANGED <<width, para>>
    /\ UNCHANGED <<parser_vars, texi_vars, conc_vars, site_vars>>

FillNext == call_fmtpara

FillSpec == FillInit /\ [][FillNext]_vars

\* The lines fmtpara returned.
FilledLines == split(filled, <<>>)

\* C13: every line fmtpara emits is at most width characters long, unless it
\* is one word that is itself longer than width; the words of the output are
\* the words of the input, in their order, none dropped.
C13_FillKeepsWithinWidth ==
    filled # None =>
        /\ \A i \in 1..Len(FilledLines) :
              \/ Len(FilledLines[i]) <= width
              \/ words(FilledLines[i], <<>>) = <<FilledLines[i]>>
        /\ words(filled, <<>>) = words(para, <<>>)

\* C13, its case: a paragraph was filled to width 3 into more than one line,
\* one of them of two words, another a single word longer than the width.
C13_FilledToThree ==
    /\ filled # None
    /\ width = 3
    /\ \E i \in 1..Len(FilledLines) : Len(words(FilledLines[i], <<>>)) = 2
    /\ \E i \in 1..Len(FilledLines) : Len(FilledLines[i]) > width

-----------------------------------------------------------------------------
(* The JSON dump (wikitoken.py json_encode, wikidump.py).  A JSON value is *)
(* null, a string, a number, a list or an object; json.dumps writes the    *)
(* value json_encode built and the reader gets the same value back.  The   *)
(* fields args and idx of a tag are not part of the model.                 *)

JNull == [j |-> "null"]
JStr(s) == [j |-> "str", s |-> s]
JNum(n) == [j |-> "num", n |-> n]
JList(items) == [j |-> "list", items |-> items]
JObj(fields) == [j |-> "obj", f |-> fields]

\* The class token_class gives a node of each type in WikiMarkup.__init__.
wikinode(type) ==
    CASE type = "TEXT" -> "WikiTextNode"
      [] type = "DELIM" -> "WikiDelimNode"
      [] type \in {"OTAG", "CTAG", "TAG"} -> "WikiTagNode"
      [] type \in {"PARA", "SEQ", "TMPL", "IT", "BOLD", "LINK"} -> "WikiSeqNode"
      [] type = "PRE" -> "WikiContentNode"
      [] type = "IND" -> "WikiIndNode"
      [] type = "REF" -> "WikiRefNode"
      [] type = "ELT" -> "WikiEltNode"
      [] type = "ENV" -> "WikiEnvNode"
      [] type = "HDR" -> "WikiHdrNode"
      [] type \in {"NIL", "NL", "BAR"} -> "WikiNode"

\* the decorator jsonencoder: the class name and the type go into the object
jsonencoder(n, fields) ==
    JObj(fields @@ [type |-> JStr(n.type), wikinode |-> JStr(wikinode(n.type))])

\* x.json_encode() of the node classes
RECURSIVE json_encode(_)
json_encode(n) ==
    LET list == JList([i \in 1..Len(n.content) |-> json_encode(n.content[i])])
    IN  CASE n.type = "TEXT" -> jsonencoder(n, [content |-> JStr(n.content)])
          [] n.type \in {"PARA", "SEQ", "TMPL", "IT", "BOLD", "LINK", "PRE"} ->
                jsonencoder(n, [content |-> IF n.content = <<>> THEN JNull ELSE list])
          [] n.type = "TAG" ->
                jsonencoder(n, [tag |-> JStr(n.tag), isblock |-> n.isblock,
                                content |-> json_encode(n.content)])
          [] n.type = "REF" ->
                jsonencoder(n, [ref |-> JStr(n.ref), content |-> json_encode(n.content)])
          [] n.type \in {"HDR", "IND"} ->
                jsonencoder(n, [level |-> JNum(n.level), content |-> json_encode(n.content)])
          [] n.type = "ELT" ->
                jsonencoder(n, [subtype |-> JNum(n.subtype),
                                content |-> json_encode(n.content)])
          [] n.type = "ENV" ->
                jsonencoder(n, [envtype |-> JStr(n.envtype), level |-> JNum(n.level),
                                content |-> list])
          [] n.type \in {"OTAG", "CTAG"} ->
                jsonencoder(n, [tag |-> JStr(n.tag), isblock |-> n.isblock,
                                content |-> JNull])
          [] n.type = "DELIM" -> jsonencoder(n, [content |-> JStr(n.content)])
          [] n.type \in {"BAR", "NL", "NIL"} -> jsonencoder(n, <<>>)

\* DumpWikiMarkup.__str__: the value json.dumps writes for the tree
dump(t) == JList([i \in 1..Len(t) |-> json_encode(t[i])])

\* The types whose content is a list of nodes, and those whose content is one.
ListTypes == {"PARA", "SEQ", "TMPL", "IT", "BOLD", "LINK", "PRE", "ENV"}
NodeTypes == {"TAG", "REF", "HDR", "IND", "ELT"}

\* What a node declares: its kind and its children in their order.
RECURSIVE Declared(_)
Declared(n) ==
    [kind |-> n.type,
     has_children |-> TRUE,
     children |-> IF n.type \in ListTypes
                  THEN [i \in 1..Len(n.content) |-> Declared(n.content[i])]
                  ELSE IF n.type \in NodeTypes THEN <<Declared(n.content)>>
                  ELSE <<>>]

\* What a reader of the dump finds of a node: the kind in "type", the
\* children in "content"; a null where the list is expected is no list.
RECURSIVE Read(_)
Read(o) ==
    LET kind == o.f.type.s
        c    == o.f.content
    IN  IF kind \in ListTypes
        THEN IF c.j = "list"
             THEN [kind |-> kind, has_children |-> TRUE,
                   children |-> [i \in 1..Len(c.items) |-> Read(c.items[i])]]
             ELSE [kind |-> kind, has_children |-> FALSE, children |-> <<>>]
        ELSE IF kind \in NodeTypes
        THEN [kind |-> kind, has_children |-> TRUE, children |-> <<Read(c)>>]
        ELSE [kind |-> kind, has_children |-> TRUE, children |-> <<>>]

\* A footnote with nothing in it: '<ref></ref>'
Doc_FootnoteEmpty == <<"<","r","e","f",">","<","/","r","e","f",">">>

\* The types of the nodes of a list of nodes.
RECURSIVE TypesOf(_)
TypesOf(ns) ==
    UNION {{ns[i].type} \cup
           (IF ns[i].type \in ListTypes THEN TypesOf(ns[i].content)
            ELSE IF ns[i].type \in NodeTypes THEN TypesOf(<<ns[i].content>>)
            ELSE {}) : i \in 1..Len(ns)}


\* C14: for every parsed tree, what is read back from the JSON dump gives,
\* for every node, the kind the node declares and its children in their
\* order; a node with no children comes back with an empty list.
C14_DumpRoundTrip ==
    pc = "done" =>
        /\ dump(tree).j = "list"
        /\ Len(dump(tree).items) = Len(tree)
        /\ \A i \in 1..Len(tree) : Read(dump(tree).items[i]) = Declared(tree[i])

\* C14, what the code does: the dump of <ref></ref> is a paragraph holding the
\* tag, whose content is a sequence that declares an empty list of children
\* and is written with "content": null.
C14_EmptySequenceDumpedAsNull ==
    /\ pc = "done"
    /\ doc = Doc_FootnoteEmpty
    /\ tree[1].content[1].content = SeqNode("SEQ", <<>>)
    /\ json_encode(tree[1]).f.content.items[1].f.content.f.content = JNull

-----------------------------------------------------------------------------
(* The Texinfo backend (wiki2texi.py): the constructor and the format of   *)
(* headers.  The other node classes are not modelled.                      *)

\* TexiWikiMarkup.sectcomm; the list of 'heading' has four entries, its first
\* two strings are written without a comma between them.
sectcomm(model) ==
    CASE model = "numbered" ->
            <<<<"@","t","o","p">>, <<"@","c","h","a","p","t","e","r">>, <<"@","s","e","c","t","i","o","n">>, <<"@","s","u","b","s","e","c","t","i","o","n">>, <<"@","s","u","b","s","u","b","s","e","c","t","i","o","n">>>>
      [] model = "unnumbered" ->
            <<<<"@","t","o","p">>, <<"@","u","n","n","u","m","b","e","r","e","d">>, <<"@","u","n","n","u","m","b","e","r","e","d","s","e","c">>, <<"@","u","n","n","u","m","b","e","r","e","d","s","u","b","s","e","c">>,
              <<"@","u","n","n","u","m","b","e","r","e","d","s","u","b","s","u","b","s","e","c">>>>
      [] model = "appendix" ->
            <<<<"@","t","o","p">>, <<"@","a","p","p","e","n","d","i","x">>, <<"@","a","p","p","e","n","d","i","x","s","e","c">>, <<"@","a","p","p","e","n","d","i","x","s","u","b","s","e","c">>,
              <<"@","a","p","p","e","n","d","i","x","s","u","b","s","u","b","s","e","c">>>>
      [] model = "heading" ->
            <<<<"@","m","a","j","o","r","h","e","a","d","i","n","g","@","c","h","a","p","h","e","a","d","i","n","g">>, <<"@","h","e","a","d","i","n","g">>, <<"@","s","u","b","h","e","a","d","i","n","g">>,
              <<"@","s","u","b","s","u","b","h","e","a","d","i","n","g">>>>

SectioningModels == {"numbered", "unnumbered", "appendix", "heading"}

\* TexiWikiMarkup.__init__ that brings a keyword out of range to the nearest
\* value allowed instead of raising.
texi_init_clamping(kw) ==
    [exc |-> "",
     sectioning_model |-> IF kw.has_model /\ kw.sectioning_model \in SectioningModels
                          THEN kw.sectioning_model ELSE "numbered",
     sectioning_start |-> IF ~kw.has_start THEN 0
                          ELSE IF kw.sectioning_start < 0 THEN 0
                          ELSE IF kw.sectioning_start > 4 THEN 4
                          ELSE kw.sectioning_start]

\* The checks at the end of TexiWikiMarkup.__init__ on the keywords kw: the
\* error raised, or the attributes of the instance.
texi_init(kw) ==
    IF kw.has_model /\ kw.sectioning_model \notin SectioningModels
    THEN [exc |-> "ValueError", sectioning_model |-> "numbered", sectioning_start |-> 0]
    ELSE IF kw.has_start /\ (kw.sectioning_start < 0 \/ kw.sectioning_start > 4)
    THEN [exc |-> "ValueError", sectioning_model |-> "numbered", sectioning_start |-> 0]
    ELSE [exc |-> "",
          sectioning_model |-> IF kw.has_model THEN kw.sectioning_model ELSE "numbered",
          sectioning_start |-> IF kw.has_start THEN kw.sectioning_start ELSE 0]

\* replchars.sub(r'@\1', text)
texi_escape(s) ==
    Flatten([i \in 1..Len(s) |-> IF s[i] \in {"@", "{", "}"} THEN <<"@", s[i]>> ELSE <<s[i]>>])

\* _print(text, nl=, escape=) on the accumulator a; text None is <<>>
texi_print(a, s, nl, escape) ==
    LET a1 == IF nl /\ ~endswith(a, "\n") THEN a \o <<"\n">> ELSE a
    IN  IF s = <<>> THEN a1 ELSE a1 \o (IF escape THEN texi_escape(s) ELSE s)

\* x.format() of TexiTextNode, of the sequence node and of TexiHdrNode, on
\* the accumulator a of a parser with sectioning model sm and start ss
RECURSIVE texi_format(_, _, _, _)
RECURSIVE texi_seq(_, _, _, _)
texi_seq(ns, a, sm, ss) ==
    IF ns = <<>> THEN a ELSE texi_seq(Tail(ns), texi_format(Head(ns), a, sm, ss), sm, ss)

texi_format(n, a, sm, ss) ==
    CASE n.type = "TEXT" -> texi_print(a, n.content, FALSE, TRUE)
      [] n.type = "SEQ"  -> texi_seq(n.content, a, sm, ss)
      [] n.type = "HDR"  ->
            IF n.level > Len(sectcomm(sm)) - 1 - ss
            THEN LET a1 == texi_print(a, <<"@","*"," ">>, TRUE, FALSE)
                     a2 == texi_format(n.content, a1, sm, ss)
                 IN  texi_print(a2, <<>>, TRUE, TRUE)
            ELSE LET a1 == texi_print(a, sectcomm(sm)[n.level - ss + 1] \o <<" ">>,
                                      TRUE, FALSE)
                     a2 == texi_format(n.content, a1, sm, ss)
                     a3 == texi_print(a2, <<>>, TRUE, TRUE)
                     a4 == IF sectcomm(sm)[1] = <<"@","t","o","p">>
                           THEN texi_print(
                                    texi_format(n.content,
                                                texi_print(a3, <<"@","n","o","d","e"," ">>, TRUE, FALSE),
                                                sm, ss),
                                    <<"\n">>, FALSE, TRUE)
                           ELSE a3
                 IN  texi_print(a4, <<>>, TRUE, TRUE)

\* TexiWikiMarkup.__str__: the tree formatted, the blank line at the end
\* trimmed
texi_str(t, sm, ss) ==
    LET a == texi_seq(t, <<>>, sm, ss)
    IN  IF Len(a) >= 2 /\ SubSeq(a, Len(a) - 1, Len(a)) = <<"\n", "\n">>
        THEN SubSeq(a, 1, Len(a) - 2) ELSE a

\* '== A ==\n' ... : one header line of level n
HeaderDoc(n) == repeat(<<"=">>, n) \o <<" ", "A", " ">> \o repeat(<<"=">>, n) \o <<"\n">>
HeaderDocs == {HeaderDoc(n) : n \in 2..MaxLevel}

\* The values the two keywords are given, right and wrong.
GivenModels == SectioningModels \cup {"bogus"}
GivenStarts == -1..5
Keywords ==
    {[has_model |-> hm, sectioning_model |-> IF hm THEN sm ELSE "",
      has_start |-> hs, sectioning_start |-> IF hs THEN ss ELSE 0] :
        hm \in BOOLEAN, sm \in GivenModels, hs \in BOOLEAN, ss \in GivenStarts}

\* TexiWikiMarkup(text=..., sectioning_model=..., sectioning_start=...) is
\* about to be called on one header line.
TexiInit ==
    /\ \E d \in HeaderDocs :
         LET i == Fresh(d, FALSE)
         IN  /\ doc = i.doc /\ text = i.text /\ file = i.file /\ line = i.line
             /\ pos = i.pos /\ toklist = i.toklist /\ stack = i.stack
             /\ tokind = i.tokind /\ newline = i.newline /\ tree = i.tree
             /\ frames = i.frames /\ entered = <<>> /\ ret = i.ret /\ pc = i.pc /\ err = i.err
    /\ strict \in BOOLEAN
    /\ mark = <<>>
    /\ references = <<>>
    /\ NothingFilled
    /\ keywords \in Keywords
    /\ sectioning_model = "numbered"
    /\ sectioning_start = 0
    /\ texi = "none"
    /\ acc = None
    /\ OneParser
    /\ NoSite

\* TexiWikiMarkup.__init__: the keywords are checked and stored, or
\* ValueError leaves no instance.
TexiWikiMarkup ==
    /\ texi = "none"
    /\ LET r == texi_init(keywords)
       IN  /\ texi' = IF r.exc = "" THEN "built" ELSE r.exc
           /\ sectioning_model' = r.sectioning_model
           /\ sectioning_start' = r.sectioning_start
    /\ UNCHANGED <<keywords, acc>>
    /\ UNCHANGED <<parser_vars, fill_vars, conc_vars, site_vars>>

\* parse() of the instance that was built
texi_parse == texi = "built" /\ first_parse

\* str(x) after parse(): __str__ formats the tree into the accumulator
texi_to_str ==
    /\ texi = "built"
    /\ pc = "done"
    /\ acc = None
    /\ acc' = texi_str(tree, sectioning_model, sectioning_start)
    /\ UNCHANGED <<keywords, sectioning_model, sectioning_start, texi>>
    /\ UNCHANGED <<parser_vars, fill_vars, conc_vars, site_vars>>

\* One renderer on one header line: the steps parse() takes on such a line.
TexiNext ==
    \/ TexiWikiMarkup
    \/ texi_parse
    \/ tokread
    \/ tokenize
    \/ parse_loop
    \/ parse_block
    \/ parse_block_delim
    \/ parse_header
    \/ texi_to_str

TexiSpec == TexiInit /\ [][TexiNext]_vars

-----------------------------------------------------------------------------
(* C15: a sectioning_model outside the four models, or a sectioning_start  *)
(* outside 0..4, makes the constructor of the Texinfo backend raise, and   *)
(* no renderer comes of it: nothing is parsed or printed; a value inside   *)
(* the ranges is stored as it was given, never one brought into range.     *)
ModelGivenRight == ~keywords.has_model \/ keywords.sectioning_model \in SectioningModels
StartGivenRight == ~keywords.has_start \/ keywords.sectioning_start \in 0..4

C15_ConfigurationErrorsAreFatal ==
    /\ texi = "none" => pc = "idle" /\ acc = None
    /\ texi = "ValueError" =>
          /\ ~(ModelGivenRight /\ StartGivenRight)
          /\ pc = "idle" /\ tree = <<>> /\ acc = None
    /\ texi = "built" =>
          /\ ModelGivenRight /\ StartGivenRight
          /\ keywords.has_model => sectioning_model = keywords.sectioning_model
          /\ keywords.has_start => sectioning_start = keywords.sectioning_start

\* The constructor has raised on a start of 5 given with a right model.
C15_StartFiveRaised ==
    /\ texi = "ValueError"
    /\ keywords.has_model /\ keywords.sectioning_model = "heading"
    /\ keywords.has_start /\ keywords.sectioning_start = 5

-----------------------------------------------------------------------------
(* C16: sectioning_start = N moves a header N positions deeper: str() of a *)
(* header of level L begins with the command at position L + N of the      *)
(* table of the sectioning model, whenever the table has that position.    *)
C16_StartShiftsDeeper ==
    acc # None /\ tree # <<>> /\ tree[1].type = "HDR" =>
        LET table == sectcomm(sectioning_model)
            at == tree[1].level + sectioning_start
            line1 == <<"\n">> \o table[at + 1] \o <<" ", "A", "\n">>
        IN  at <= Len(table) - 1 =>
                Len(acc) >= Len(line1) /\ SubSeq(acc, 1, Len(line1)) = line1

\* '== A ==' with the numbered model and a start of 1 has come out as
\* '@chapter A' and its node.
C16_ShiftedToChapter ==
    /\ doc = HeaderDoc(2)
    /\ sectioning_model = "numbered" /\ sectioning_start = 1
    /\ acc = <<"\n">> \o <<"@","c","h","a","p","t","e","r"," ","A">> \o <<"\n">> \o <<"@","n","o","d","e"," ","A">> \o <<"\n">>

\* '== A ==' with the numbered model and no start given comes out as
\* '@section A' and its node.
C16_PlainIsSection ==
    /\ doc = HeaderDoc(2)
    /\ ~keywords.has_start /\ ~keywords.has_model
    /\ acc = <<"\n">> \o <<"@","s","e","c","t","i","o","n"," ","A">> \o <<"\n">> \o <<"@","n","o","d","e"," ","A">> \o <<"\n">>

-----------------------------------------------------------------------------
(* Two parser instances at work at once, as when two pages are rendered in *)
(* two threads.  mark and references are lists of the class               *)
(* (wikimarkup.py 389, wiki2html.py 230, wiki2text.py 257): no instance    *)
(* assigns them, so self.mark and self.references of every instance are   *)
(* these two lists.  A thread switch is taken between the steps of         *)
(* parse().                                                               *)
Instances == {1, 2}

\* The machine of instance i: its own attributes and the lists of the class.
MachineOf(i) ==
    LET p == parsers[i]
    IN  [toklist |-> p.toklist, tokind |-> p.tokind, newline |-> p.newline,
         tree |-> p.tree, mark |-> mark, references |-> references,
         frames |-> p.frames, ret |-> p.ret, pc |-> p.pc, err |-> p.err,
         strict |-> strict, tok |-> NoNode, res |-> FALSE]

\* The step of the parse_* method on top of the call stack of m.
method_step(m) ==
    LET fn == Top(m).fn
    IN  CASE fn = "parse"              -> parse_step(m)
          [] fn = "parse_block"        -> parse_block_step(m)
          [] fn = "parse_block_delim"  -> parse_block_delim_step(m)
          [] fn = "parse_header"       -> parse_header_step(m)
          [] fn = "parse_para"         -> parse_para_step(m)
          [] fn = "parse_line"         -> parse_line_step(m)
          [] fn = "parse_indent"       -> parse_indent_step(m)
          [] fn = "parse_fontmod"      -> parse_fontmod_step(m)
          [] fn = "parse_ref"          -> parse_ref_step(m)
          [] fn = "parse_link"         -> parse_link_step(m)
          [] fn = "parse_inline_delim" -> parse_inline_delim_step(m)
          [] fn = "parse_tag"          -> parse_tag_step(m)
          [] fn = "parse_env"          -> parse_env_step(m)

\* Who put the entries of a list of the class there, after instance i has
\* changed the list from old to new: what the two have in common stays with
\* its owner, what is new is of i.
RECURSIVE CommonPrefix(_, _)
CommonPrefix(a, b) ==
    IF a = <<>> \/ b = <<>> \/ Head(a) # Head(b) THEN 0
    ELSE 1 + CommonPrefix(Tail(a), Tail(b))
Owners(own, old, new, i) ==
    LET k == CommonPrefix(old, new)
    IN  SubSeq(own, 1, k) \o [j \in 1..(Len(new) - k) |-> i]

\* The text of a page both instances are built on.
TwoDocs == {Doc_Footnote, <<"'", "'", "a", "'", "'">>}

TwoInit ==
    /\ ParserUnused
    /\ \E d \in TwoDocs : parsers = [i \in Instances |-> Fresh(d, FALSE)]
    /\ mark_owner = <<>>
    /\ ref_owner = <<>>
    /\ NothingFilled
    /\ NoTexi
    /\ NoSite

Others == <<text, file, strict, line, pos, toklist, stack, tokind, newline, tree,
            frames, entered, ret, pc, err, doc, fill_vars, texi_vars, site_vars>>

\* instance i calls parse()
two_parse(i) ==
    /\ parsers[i].pc = "idle"
    /\ parsers' = [parsers EXCEPT ![i].pc = "tokread"]
    /\ UNCHANGED <<mark, references, mark_owner, ref_owner, Others>>

\* instance i: one pass of the loop of tokread()
two_tokread(i) ==
    /\ parsers[i].pc = "tokread"
    /\ LET p == parsers[i]
           r == tokread_pass(p.line, p.pos, p.text, p.file)
       IN  parsers' = [parsers EXCEPT ![i] =
                          [p EXCEPT !.toklist = p.toklist \o r.toks, !.line = r.line,
                                    !.pos = r.pos, !.text = r.text, !.file = r.file,
                                    !.pc = r.to, !.err = r.err]]
    /\ UNCHANGED <<mark, references, mark_owner, ref_owner, Others>>

\* instance i: the fix-up of tokenize(), and parse() sets out
two_tokenize(i) ==
    /\ parsers[i].pc = "fixup"
    /\ LET p == parsers[i]
           r == fix_scan(p.toklist, 0, <<>>)
       IN  parsers' = [parsers EXCEPT ![i] =
                          [p EXCEPT !.toklist = fix_unmatched(r.toklist, r.stack),
                                    !.stack = r.stack, !.pc = "parse", !.tokind = 0,
                                    !.tree = <<>>, !.frames = <<Frame("parse")>>]]
    /\ UNCHANGED <<mark, references, mark_owner, ref_owner, Others>>

\* instance i: one step of the parse_* method it is in
two_step(i) ==
    /\ parsers[i].pc = "parse"
    /\ parsers[i].frames # <<>>
    /\ LET p == parsers[i]
           m == method_step(MachineOf(i))
       IN  /\ parsers' = [parsers EXCEPT ![i] =
                            [p EXCEPT !.toklist = m.toklist, !.tokind = m.tokind,
                                      !.newline = m.newline, !.tree = m.tree,
                                      !.frames = m.frames, !.ret = m.ret,
                                      !.pc = m.pc, !.err = m.err]]
           /\ mark' = m.mark
           /\ references' = m.references
           /\ mark_owner' = Owners(mark_owner, mark, m.mark, i)
           /\ ref_owner' = Owners(ref_owner, references, m.references, i)
    /\ UNCHANGED Others

TwoNext ==
    \E i \in Instances :
        \/ two_parse(i)
        \/ two_tokread(i)
        \/ two_tokenize(i)
        \/ two_step(i)

TwoParsers == TwoInit /\ [][TwoNext]_vars

\* self.mark and self.references of instance i: the attribute is looked up
\* in the class.
mark_of(i) == mark
references_of(i) == references

Acted(i) == parsers'[i] # parsers[i]

(* C17: whatever the interleaving of two instances, the steps of one never *)
(* change the mark stack or the reference list of the other, and a         *)
(* pop_mark restores a cursor the same instance pushed.                    *)
C17_ParseStateIsPerInstance ==
    [][\A i \in Instances : Acted(i) =>
          /\ \A j \in Instances \ {i} :
                /\ mark_of(j)' = mark_of(j)
                /\ references_of(j)' = references_of(j)
          /\ Len(mark') < Len(mark) => mark_owner[Len(mark)] = i]_vars

\* Both instances are through; the footnote of the second is numbered after
\* the footnote of the first, and the list of either holds both.
C17_FootnotesOfTwoParsesMixed ==
    /\ \A i \in Instances : parsers[i].pc = "done"
    /\ ref_owner = <<1, 2>>
    /\ \E k \in 1..Len(parsers[2].tree) : RefsOf(parsers[2].tree[k]) # <<>>
    /\ Len(references_of(2)) = 2

-----------------------------------------------------------------------------
(* The site (src/WikiRum/wiki): the models WikiPage and SubTopic and the   *)
(* views on them.  A row is known by its place in pages or subtopics, its  *)
(* primary key.                                                            *)

\* markdown.markdown(s) on one line of text: the line becomes a paragraph,
\* '**x**' in it strong text; nothing comes of an empty line.
RECURSIVE md_find(_, _)
md_find(s, p) == IF p + 1 >= Len(s) THEN -1
                 ELSE IF s[p + 1] = "*" /\ s[p + 2] = "*" THEN p ELSE md_find(s, p + 1)
RECURSIVE md_inline(_)
md_inline(s) ==
    LET a == md_find(s, 0)
        b == IF a < 0 THEN -1 ELSE md_find(s, a + 2)
    IN  IF a < 0 \/ b < 0 \/ b = a + 2 THEN s
        ELSE Slice(s, 0, a) \o <<"<","s","t","r","o","n","g",">">> \o Slice(s, a + 2, b)
             \o <<"<","/","s","t","r","o","n","g",">">> \o md_inline(From(s, b + 2))
markdown(s) ==
    IF strip(s) = <<>> THEN <<>> ELSE <<"<","p",">">> \o md_inline(strip(s)) \o <<"<","/","p",">">>

\* What the tests and the forms fill the fields with.
Titles == {"Spanish", "Classes"}
Texts == {<<"y","e","a","h">>, <<"i","s"," ","*","*","b","o","l","d","*","*",".">>}
Categories == {"Department"}
Users == {"AnonymousUser", "john"}

\* The rows of SubTopic whose topic is page p (page.subtopics).
subtopics_of(p) == {k \in 1..Len(subtopics) : subtopics[k].topic = p}

\* The orders in which a query without an ordering may hand out the rows K.
Orders(K) == {q \in [1..Cardinality(K) -> K] : \A i, j \in 1..Cardinality(K) :
                                                   i # j => q[i] # q[j]}

\* WikiPage.get_sub_topics: the loop over the rows in the order q, on the
\* dictionary d
RECURSIVE topics_loop(_, _)
topics_loop(q, d) ==
    IF q = <<>> THEN d
    ELSE LET t == subtopics[Head(q)]
         IN  topics_loop(Tail(q),
                 [x \in DOMAIN d \cup {t.title} |->
                     IF x = t.title THEN markdown(t.text) ELSE d[x]])

SiteInit ==
    /\ ParserUnused
    /\ NothingFilled
    /\ NoTexi
    /\ OneParser
    /\ NoSite

beside_site == <<parser_vars, fill_vars, texi_vars, conc_vars>>

\* WikiPage.objects.create(title=..., text=...), as the tests set up
WikiPage_create ==
    /\ Len(pages) < MaxPages
    /\ \E title \in Titles, txt \in Texts :
         pages' = Append(pages, [title |-> title, text |-> txt, category |-> ""])
    /\ UNCHANGED <<subtopics, response, topics_text>>
    /\ UNCHANGED beside_site

\* NewPage: a POST of a valid form saves the page and redirects to home; a
\* POST of a form that is not valid returns nothing, which the handler of
\* the framework answers with status 500; anything else shows the form.
NewPage ==
    /\ Len(pages) < MaxPages
    /\ \E method \in {"GET", "POST"}, title \in Titles \cup {""}, txt \in Texts,
          category \in Categories :
         IF method = "POST"
         THEN IF title # ""
              THEN /\ pages' = Append(pages, [title |-> title, text |-> txt,
                                              category |-> category])
                   /\ response' = Response("NewPage", title, 302, "")
              ELSE /\ response' = Response("NewPage", title, 500, "")
                   /\ UNCHANGED pages
         ELSE /\ response' = Response("NewPage", title, 200, "newpage.html")
              /\ UNCHANGED pages
    /\ UNCHANGED <<subtopics, topics_text>>
    /\ UNCHANGED beside_site

\* SubTopic.objects.create(title=..., text=..., topic=page)
SubTopic_create ==
    /\ Len(subtopics) < MaxSubTopics
    /\ \E p \in 1..Len(pages), title \in Titles, txt \in Texts :
         subtopics' = Append(subtopics, [title |-> title, text |-> txt, topic |-> p])
    /\ UNCHANGED <<pages, response, topics_text>>
    /\ UNCHANGED beside_site

\* get_object_or_404(WikiPage, title=title): the keys of the rows found
titled(title) == {p \in 1..Len(pages) : pages[p].title = title}

\* AddSubTopic: no page of the title is 404, more than one is the exception
\* MultipleObjectsReturned; a POST of a valid form by a user who is logged in
\* saves the subtopic on the page and redirects to the page.
AddSubTopic ==
    /\ Len(subtopics) < MaxSubTopics
    /\ \E method \in {"GET", "POST"}, user \in Users, of \in Titles,
          title \in Titles \cup {""}, txt \in Texts :
         LET found == titled(of)
         IN  IF found = {}
             THEN /\ response' = Response("AddSubTopic", of, 404, "")
                  /\ UNCHANGED subtopics
             ELSE IF Cardinality(found) > 1
             THEN /\ response' = Response("AddSubTopic", of, 500, "")
                  /\ UNCHANGED subtopics
             ELSE IF method = "POST"
             THEN IF title # "" /\ user # "AnonymousUser"
                  THEN /\ subtopics' = Append(subtopics,
                                          [title |-> title, text |-> txt,
                                           topic |-> CHOOSE p \in found : TRUE])
                       /\ response' = Response("AddSubTopic", of, 302, "")
                  ELSE /\ response' = Response("AddSubTopic", of, 500, "")
                       /\ UNCHANGED subtopics
             ELSE /\ response' = Response("AddSubTopic", of, 200, "newtopic.html")
                  /\ UNCHANGED subtopics
    /\ UNCHANGED <<pages, topics_text>>
    /\ UNCHANGED beside_site

\* ViewWikiPage: get_object_or_404 answers 404 when no row has the title and
\* lets MultipleObjectsReturned through when several have it; one row is
\* rendered with pageview.html.
ViewWikiPage ==
    /\ \E title \in Titles :
         LET found == titled(title)
         IN  response' =
               IF found = {} THEN Response("ViewWikiPage", title, 404, "")
               ELSE IF Cardinality(found) > 1
               THEN Response("ViewWikiPage", title, 500, "")
               ELSE Response("ViewWikiPage", title, 200, "pageview.html")
    /\ UNCHANGED <<pages, subtopics, topics_text>>
    /\ UNCHANGED beside_site

\* page.get_sub_topics() of a row p of WikiPage
get_sub_topics ==
    /\ \E p \in 1..Len(pages) : \E q \in Orders(subtopics_of(p)) :
         topics_text' = [page |-> p, dict |-> topics_loop(q, EmptyDict)]
    /\ UNCHANGED <<pages, subtopics, response>>
    /\ UNCHANGED beside_site

SiteNext ==
    \/ WikiPage_create
    \/ NewPage
    \/ SubTopic_create
    \/ AddSubTopic
    \/ ViewWikiPage
    \/ get_sub_topics

SiteSpec == SiteInit /\ [][SiteNext]_vars

(* C18: get_sub_topics() of a page returns one entry for each subtopic of  *)
(* the page: as many entries as the page has subtopics, and under the      *)
(* title of each subtopic the rendered text of that subtopic.              *)
C18_OneEntryPerSubTopic ==
    [][topics_text' # topics_text =>
          LET p == topics_text'.page
              d == topics_text'.dict
          IN  /\ Cardinality(DOMAIN d) = Cardinality(subtopics_of(p))
              /\ \A k \in subtopics_of(p) :
                    /\ subtopics[k].title \in DOMAIN d
                    /\ d[subtopics[k].title] = markdown(subtopics[k].text)]_vars

\* get_sub_topics() has returned one entry for a page of two subtopics of
\* the same title.
C18_TwoSubTopicsOneEntry ==
    /\ topics_text # NoTopics
    /\ Cardinality(DOMAIN topics_text.dict) = 1
    /\ Cardinality(subtopics_of(topics_text.page)) = 2

\* The case of the test: two subtopics of two titles come back as two
\* entries, 'yeah' as '<p>yeah</p>'.
C18_AsInTheTest ==
    /\ topics_text # NoTopics
    /\ Cardinality(DOMAIN topics_text.dict) = 2
    /\ Cardinality(subtopics_of(topics_text.page)) = 2
    /\ \E t \in DOMAIN topics_text.dict : topics_text.dict[t] = <<"<","p",">","y","e","a","h","<","/","p",">">>

(* C19: the view of a page answers a title that has a page with status 200 *)
(* and the template pageview.html, however the pages were created, and a   *)
(* title that has no page with 404.                                        *)
C19_ExistingPageIsShown ==
    [][response' # response /\ response'.view = "ViewWikiPage" =>
          IF titled(response'.title) # {}
          THEN response'.status = 200 /\ response'.template = "pageview.html"
          ELSE response'.status = 404]_vars

\* Two pages of one title, one of them made through NewPage: the view of the
\* title has ended in MultipleObjectsReturned.
C19_TwoPagesOfOneTitle ==
    /\ response.view = "ViewWikiPage"
    /\ response.status = 500
    /\ Cardinality(titled(response.title)) = 2
    /\ \E p \in titled(response.title) : pages[p].category # ""

-----------------------------------------------------------------------------
(* C20: bracket recovery.  When the speculative parse of '[', '[[' or '{{' *)
(* has failed, the scan that goes forward from the opener and keeps the    *)
(* depth of the pair rewrites the first closing delimiter it finds at      *)
(* depth 0 to TEXT, be it right after the opener or after a nested         *)
(* balanced pair, and rewrites no other token.                             *)

\* parse_inline_delim is back from a speculative parse that failed, on an
\* opener that has a closing delimiter.
Recovery ==
    /\ Running("parse_inline_delim")
    /\ Top(Machine).pc = "ret"
    /\ ~Truthy(ret)
    /\ HasCloseDelim(Top(Machine).tok.content)

\* The place in tl, from j on, of the first closing delimiter cd at depth 0
\* of the pair od, cd; -1 when there is none.
RECURSIVE unmatched_close(_, _, _, _, _)
unmatched_close(tl, j, od, cd, lev) ==
    IF j >= Len(tl) \/ tl[j + 1].type = "NIL" THEN -1
    ELSE IF tl[j + 1].type = "DELIM" /\ tl[j + 1].content = od
    THEN unmatched_close(tl, j + 1, od, cd, lev + 1)
    ELSE IF tl[j + 1].type = "DELIM" /\ tl[j + 1].content = cd
    THEN IF lev = 0 THEN j ELSE unmatched_close(tl, j + 1, od, cd, lev - 1)
    ELSE unmatched_close(tl, j + 1, od, cd, lev)

C20_RecoveryRewritesUnmatchedClose ==
    [][Recovery =>
          LET od == Top(Machine).tok.content
              k == unmatched_close(toklist, tokind', od, close_delim(od), 0)
          IN  /\ Len(toklist') = Len(toklist)
              /\ k >= 0 => toklist'[k + 1] = TEXT(close_delim(od))
              /\ \A i \in 0..(Len(toklist) - 1) :
                    i \notin {tokind' - 1, k} => toklist'[i + 1] = toklist[i + 1]]_vars

\* The recovery of '[' is over and the ']' right after it is a delimiter
\* still.
C20_CloseAfterOpenerLeft ==
    /\ pc = "parse"
    /\ ret = TEXT(<<"[">>)
    /\ tokind >= 1 /\ tokind < Len(toklist)
    /\ toklist[tokind].type = "TEXT" /\ toklist[tokind].content = <<"[">>
    /\ toklist[tokind + 1].type = "DELIM" /\ toklist[tokind + 1].content = <<"]">>

\* The recovery of '[' has rewritten a ']' further on.
C20_CloseFurtherOnRewritten ==
    /\ pc = "parse"
    /\ ret = TEXT(<<"[">>)
    /\ tokind >= 1 /\ tokind + 1 < Len(toklist)
    /\ toklist[tokind].type = "TEXT" /\ toklist[tokind].content = <<"[">>
    /\ toklist[tokind + 2].type = "TEXT" /\ toklist[tokind + 2].content = <<"]">>
    /\ \E k \in 1..Len(doc) : doc[k] = "]"

-----------------------------------------------------------------------------
(* C21: when the sub-parse parse_inline_delim started has failed, the      *)
(* method returns with the cursor just after the opening delimiter,        *)
(* whatever the sub-parse consumed; the slot of the opening delimiter      *)
(* holds a TEXT token, which is the node returned.  When parse_header has  *)
(* failed, parse_block_delim puts the cursor back on the slot of the       *)
(* opener, which holds a TEXT token.                                       *)

\* parse_inline_delim returns without a node of its sub-parse.
InlineFails ==
    /\ Running("parse_inline_delim")
    /\ ~(Top(Machine).pc = "ret" /\ Truthy(ret))
    /\ Len(frames') < Len(frames)
    /\ pc' = "parse"

\* parse_block_delim is back from parse_header without a header.
HeaderFails ==
    /\ Running("parse_block_delim")
    /\ Top(Machine).pc = "ret_hdr"
    /\ ~Truthy(ret)
    /\ pc' = "parse"

C21_CursorRestoredOnFailure ==
    [][/\ InlineFails =>
             LET p == entered[Len(frames)]
             IN  /\ p >= 1
                 /\ toklist[p] = Top(Machine).tok
                 /\ tokind' = p
                 /\ toklist'[p].type = "TEXT"
                 /\ ret' = toklist'[p]
       /\ HeaderFails =>
             LET p == entered[Len(frames)]
             IN  /\ p >= 1
                 /\ toklist[p] = Top(Machine).tok
                 /\ tokind' = p - 1
                 /\ toklist'[p].type = "TEXT"]_vars

\* '[' has failed after its sub-parse went beyond the 'a' that follows it:
\* the cursor is back after the '[', now TEXT.
C21_BackAfterOpener ==
    /\ pc = "parse"
    /\ ret = TEXT(<<"[">>)
    /\ tokind >= 1 /\ tokind + 1 < Len(toklist)
    /\ toklist[tokind] = ret
    /\ toklist[tokind + 1] = TEXT(<<"a">>)
    /\ toklist[tokind + 2].type = "NL"


\* A header that a newline ended has failed: the cursor is on its '==', now
\* TEXT, and parse_block_delim has returned nothing.
C21_HeaderOpenerBack ==
    /\ pc = "parse"
    /\ Running("parse_block")
    /\ ~Truthy(ret)
    /\ tokind + 1 < Len(toklist)
    /\ toklist[tokind + 1] = TEXT(<<"=", "=">>)
    /\ toklist[tokind + 2] = TEXT(<<"a">>)

-----------------------------------------------------------------------------
(* C22: is_block_end(tok), as parse_para calls it on every token of a      *)
(* paragraph: true at a delimiter or a tag token flagged isblock, with     *)
(* the token pushed back so that the cursor points at it; true at the end  *)
(* of input; true at a newline followed by the end of input or by another  *)
(* newline, which it consumes; false with the cursor unchanged otherwise.  *)

\* The token parse_para is about to test, and the machine at that point.
ParaMachine == parse_para_head(Machine)
ParaTok == Top(ParaMachine).tok

BlockFlagged(t) == t.type \in {"DELIM", "OTAG", "CTAG", "TAG"} /\ t.isblock

C22_BlockEnd ==
    Running("parse_para") =>
        LET m == ParaMachine
            t == ParaTok
            r == is_block_end(m, t)
        IN  IF BlockFlagged(t)
            THEN r.res /\ r.tokind = m.tokind - 1 /\ r.toklist[r.tokind + 1] = t
            ELSE IF t.type = "NIL" THEN r.res /\ r.tokind = m.tokind
            ELSE IF t.type = "NL" /\ lookahead(m, 0).type = "NIL"
            THEN r.res /\ r.tokind = m.tokind
            ELSE IF t.type = "NL" /\ lookahead(m, 0).type = "NL"
            THEN r.res /\ r.tokind = m.tokind + 1
            ELSE ~r.res /\ r.tokind = m.tokind /\ r.toklist = m.toklist

\* parse_para is on an open tag flagged isblock, and is_block_end says the
\* block goes on.
C22_BlockOpenTagGoesOn ==
    /\ Running("parse_para")
    /\ ParaTok.type = "OTAG" /\ ParaTok.isblock
    /\ ~is_block_end(ParaMachine, ParaTok).res

\* parse_para is on a delimiter flagged isblock: is_block_end has it pushed
\* back.
C22_BlockDelimPushedBack ==
    /\ Running("parse_para")
    /\ ParaTok.type = "DELIM" /\ ParaTok.isblock
    /\ is_block_end(ParaMachine, ParaTok).res
    /\ is_block_end(ParaMachine, ParaTok).tokind = ParaMachine.tokind - 1

-----------------------------------------------------------------------------
(* C23: in an environment, the line after a marker of the kind and the     *)
(* run length of the environment becomes a new element, unless the marker  *)
(* is flagged continuation: then the line is appended to the content of    *)
(* the element before it, no element is added, and the line is in the      *)
(* tree all the same.                                                      *)

\* parse_env is back from the parse_line of a marker of its own level.
EnvBackFromLine == Running("parse_env") /\ Top(Machine).pc = "ret_line"

C23_ContinuationJoinsPreviousElement ==
    [][EnvBackFromLine =>
          LET f == Top(Machine)
              old == f.list
              new == IF Len(frames') >= Len(frames) THEN frames'[Len(frames)].list
                     ELSE ret'.content
          IN  IF ~f.tok.continuation
              THEN /\ Len(new) = Len(old) + 1
                   /\ new[Len(new)].type = "ELT"
                   /\ new[Len(new)].content = ret
              ELSE /\ Len(new) = Len(old)
                   /\ old # <<>>
                   /\ new[Len(new)].content.content
                        = Append(old[Len(old)].content.content, ret)]_vars

\* '*:a': the parse is over and the environment has no element, the line
\* 'a' is nowhere in the tree.
C23_ContinuationLineLost ==
    /\ pc = "done"
    /\ doc = Doc_ContinuationFirst
    /\ Len(tree) = 1
    /\ tree[1].type = "ENV"
    /\ tree[1].content = <<>>

\* '**a' continued by '*:b': one element, holding both lines.
C23_ContinuationJoined ==
    /\ pc = "done"
    /\ doc = Doc_Continuation
    /\ Len(tree) = 1
    /\ tree[1].type = "ENV"
    /\ Len(tree[1].content) = 1
    /\ Len(tree[1].content[1].content.content) = 2

-----------------------------------------------------------------------------
(* C24: the content of a link or template is split at its top-level bars   *)
(* into parts kept in source order: every bar closes one part, the closing *)
(* delimiter closes the last one, so k bars give k + 1 parts and a node    *)
(* has at least one part.                                                  *)

\* parse_link is about to read a token (it is not giving up on a failed
\* inline delimiter).
LinkReads == Running("parse_link") /\ (Top(Machine).pc = "ret_x" => Truthy(ret))
LinkTok == getkn(Machine).tok

C24_BarsSplitIntoParts ==
    [][(LinkReads /\ LinkTok.type = "DELIM") =>
          LET f == Top(Machine)
          IN  /\ LinkTok.content = f.delim =>
                    /\ ret'.type = f.type
                    /\ Len(ret'.content) = Len(f.subtree) + 1
                    /\ Len(ret'.content) >= 1
              /\ (LinkTok.content = <<"|">> /\ LinkTok.content # f.delim) =>
                    /\ Len(frames') = Len(frames)
                    /\ Len(frames'[Len(frames)].subtree) = Len(f.subtree) + 1]_vars

\* '[[]]' parsed: a LINK node without any part.
C24_LinkWithoutParts ==
    /\ pc = "done"
    /\ doc = Doc_LinkEmpty
    /\ Len(tree) = 1
    /\ tree[1].type = "PARA"
    /\ tree[1].content[1].type = "LINK"
    /\ tree[1].content[1].content = <<>>

\* '[[a|]]' parsed: one bar, one part.
C24_OneBarOnePart ==
    /\ pc = "done"
    /\ doc = Doc_LinkBarLast
    /\ Len(tree) = 1
    /\ tree[1].content[1].type = "LINK"
    /\ Len(tree[1].content[1].content) = 1

\* '[[a|b]]' parsed: one bar, two parts, the target first.
C24_OneBarTwoParts ==
    /\ pc = "done"
    /\ doc = Doc_Link
    /\ Len(tree) = 1
    /\ tree[1].content[1].type = "LINK"
    /\ Len(tree[1].content[1].content) = 2
    /\ tree[1].content[1].content[1] = TEXT(<<"a">>)

-----------------------------------------------------------------------------
(* C25: when the attribute string of a recognized open tag is malformed    *)
(* (a name that is no name, a quoted value never closed, an empty quoted   *)
(* value, a backslash escape), tokread yields one TEXT token holding the   *)
(* literal text of the tag, goes on, and no exception reaches the caller.  *)

\* The line and the position the next pass of tokread works at.
TagLine == IF Falsy(line) \/ pos = Len(line) THEN input(text, file).line ELSE line
TagPos == IF Falsy(line) \/ pos = Len(line) THEN 0 ELSE pos
\* The open tag the next pass of tokread matches, if it does.
OpenTagRead ==
    IF pc # "tokread" \/ Falsy(TagLine) \/ TagLine = <<"\n">> THEN NoMatch
    ELSE LET m == delim_search(TagLine, TagPos)
         IN  IF m.start < 0 THEN NoMatch
             ELSE IF TagLine[m.start + 1] # "<" THEN NoMatch
             ELSE LET om == otag_match(TagLine, m.start)
                  IN  IF om.ok /\ om.tag \in tags /\ om.tag # S_nowiki /\ om.end < Len(TagLine)
                      THEN om ELSE NoMatch
\* The string has a backslash in it.
HasBackslash(s) == \E k \in 1..Len(s) : s[k] = "\\"
Malformed(args) == TagAttributes(args) # "ok" \/ HasBackslash(args)

C25_MalformedAttributesDegradeToText ==
    [][(OpenTagRead.ok /\ Malformed(OpenTagRead.args)) =>
          /\ pc' = "tokread"
          /\ err' = ""
          /\ Len(toklist') > Len(toklist)
          /\ toklist'[Len(toklist')]
               = TEXT(Slice(TagLine, OpenTagRead.start, OpenTagRead.end))]_vars

\* '<ref a="b>x': the value is never closed, IndexError leaves tokread.
C25_OpenQuoteRaises ==
    /\ doc = Doc_TagOpenQuote
    /\ pc = "error"
    /\ err = "IndexError"
    /\ toklist = <<>>

\* '<ref a="">x': the value is empty, AttributeError leaves tokread.
C25_EmptyValueRaises ==
    /\ doc = Doc_TagEmptyValue
    /\ pc = "error"
    /\ err = "AttributeError"

\* '<ref a="b\c">x': the backslash is part of the value, the tag is an OTAG.
C25_BackslashAccepted ==
    /\ doc = Doc_TagBackslash
    /\ Len(toklist) >= 1
    /\ toklist[1].type = "OTAG"

\* '<ref =a>x': the attribute has no name, the tag is a TEXT token.
C25_BadNameIsText ==
    /\ doc = Doc_TagBadName
    /\ Len(toklist) >= 1
    /\ toklist[1] = TEXT(<<"<","r","e","f"," ","=","a",">">>)

-----------------------------------------------------------------------------
(* C26: the token list tokenize() leaves is the one the four stack rules   *)
(* give, tried in this order at every quote-run delimiter: the top of the  *)
(* stack has the same spelling (pop); the stack has at least two entries   *)
(* and its top two are adjacent indices (swap the two stacked tokens,      *)
(* pop); the next token is a quote run spelt as the top of the stack (swap *)
(* the current and the next token, pop); otherwise push.                   *)

\* The four rules, with the stack of any depth of two or more in the second.
RECURSIVE rule_scan(_, _, _)
rule_scan(tl, i, st) ==
    LET cur  == tl[i + 1]
        top  == tl[st[Len(st)] + 1]
        next == tl[i + 2]
    IN  IF i >= Len(tl) THEN [toklist |-> tl, stack |-> st]
        ELSE IF ~IsQuote(cur) THEN rule_scan(tl, i + 1, st)
        ELSE IF Len(st) >= 1 /\ top.content = cur.content
        THEN rule_scan(tl, i + 1, Front(st))
        ELSE IF Len(st) >= 2 /\ st[Len(st) - 1] + 1 = st[Len(st)]
        THEN rule_scan(swaptkn(tl, st[Len(st) - 1], st[Len(st)]), i + 1, Front(st))
        ELSE IF Len(st) >= 1 /\ i + 2 <= Len(tl) /\ IsQuote(next)
                /\ next.content = top.content
        THEN rule_scan(swaptkn(tl, i, i + 1), i + 1, Front(st))
        ELSE rule_scan(tl, i + 1, Append(st, i))

C26_TokenizeFollowsTheFourRules ==
    [][pc = "fixup" =>
          LET r == rule_scan(toklist, 0, <<>>)
          IN  /\ stack' = r.stack
              /\ toklist' = fix_unmatched(r.toklist, r.stack)]_vars

\* tokenize() has run on "''a'''a''": three indices are left on the stack,
\* the top two of them not adjacent.
C26_StackOfThree ==
    /\ pc = "parse"
    /\ tokind = 0
    /\ frames = <<Frame("parse")>>
    /\ doc = Doc_QuotesThreeDeep
    /\ stack = <<0, 2, 4>>

\* tokenize() has run on five quotes, a, five quotes: the second rule swapped
\* the two openers where the third applied as well.
C26_SecondRuleBeforeThird ==
    /\ pc = "parse"
    /\ tokind = 0
    /\ frames = <<Frame("parse")>>
    /\ doc = Doc_QuotesFiveFive
    /\ stack = <<>>
    /\ toklist[1] = DELIM(Q2, FALSE, FALSE)
    /\ toklist[2] = DELIM(Q3, FALSE, FALSE)
    /\ toklist[4] = DELIM(Q3, FALSE, FALSE)
    /\ toklist[5] = DELIM(Q2, FALSE, FALSE)

-----------------------------------------------------------------------------
(* C27: whenever the parser rewrites a slot of the token list, the slot    *)
(* gets a TEXT token whose content is the literal spelling of the token it *)
(* held: the delimiter's characters, or </name> for a close tag.           *)

\* The characters a delimiter or a close tag is written with.
Spelling(t) ==
    IF t.type = "CTAG" THEN <<"<","/">> \o t.tag \o <<">">>
    ELSE IF t.type = "DELIM" THEN t.content
    ELSE <<>>

\* The slots of the token list the step rewrites.
Rewritten == {k \in 1..Len(toklist) : k <= Len(toklist') /\ toklist'[k] # toklist[k]}

C27_RewriteKeepsTheSpelling ==
    [][pc = "parse" =>
          \A k \in Rewritten :
              /\ toklist[k].type \in {"DELIM", "CTAG"}
              /\ toklist'[k] = TEXT(Spelling(toklist[k]))]_vars

\* The same, the close tags left aside.
C27_DelimiterRewriteKeepsTheSpelling ==
    [][pc = "parse" =>
          \A k \in Rewritten :
              toklist[k].type # "CTAG" =>
                  /\ toklist[k].type = "DELIM"
                  /\ toklist'[k] = TEXT(Spelling(toklist[k]))]_vars

\* '<ref>a</tt>b</ref>' parsed: the slot of </tt> holds the text '</ref>'.
C27_CloseTagSpeltAsTheOpenTag ==
    /\ doc = Doc_CloseTagOther
    /\ pc = "done"
    /\ toklist[3] = TEXT(<<"<","/","r","e","f",">">>)
    /\ Len(tree) = 1
    /\ tree[1].content[1].type = "TAG"
    /\ tree[1].content[1].content.content[2] = TEXT(<<"<","/","r","e","f",">">>)

-----------------------------------------------------------------------------
(* C28: parse() consumes the whole input: when it returns normally the     *)
(* cursor has reached the END token, no other token is left unread, and    *)
(* every block of the input is in the tree.                                *)

\* The slots at and after the cursor.
Unread == {k \in (tokind + 1)..Len(toklist) : toklist[k].type # "NIL"}

C28_ParseConsumesTheInput ==
    pc = "done" => Unread = {}

\* '</ref>', an empty line, 'a': parse() has returned, the tree is empty and
\* the paragraph 'a' has not been read.
C28_StoppedAtStrayCloseTag ==
    /\ pc = "done"
    /\ doc = Doc_StrayCloseTag
    /\ tree = <<>>
    /\ toklist[1].type = "CTAG"
    /\ \E k \in Unread : toklist[k] = TEXT(<<"a">>)

\* a paragraph, an empty line, a paragraph: both are in the tree and the
\* cursor is past the END token.
C28_TwoParagraphsRead ==
    /\ pc = "done"
    /\ Len(tree) = 2
    /\ tree[1].type = "PARA"
    /\ tree[2].type = "PARA"
    /\ tokind = Len(toklist)

-----------------------------------------------------------------------------
(* C29: the mark stack is balanced: a speculative parse (inline delimiter, *)
(* tag, header) pushes one mark when it starts and takes exactly one off   *)
(* before it returns, so the depth of the stack is the number of           *)
(* speculative parses in progress, and the stack is empty whenever parse() *)
(* returns normally.                                                       *)

Speculative == {"parse_inline_delim", "parse_tag", "parse_header"}
\* The frames of the speculative parses that have pushed their mark.
InProgress(fs) == {k \in 1..Len(fs) : fs[k].fn \in Speculative /\ fs[k].pc # "enter"}

C29_MarkStackBalanced ==
    /\ pc = "parse" => Len(mark) = Cardinality(InProgress(frames))
    /\ pc = "done" => mark = <<>>

\* A parse() raised inside a reference, the next one, on bold and italic
\* text, has returned its tree: the mark of the first is still on the stack.
C29_MarkLeftByRaisedParse ==
    /\ pc = "done"
    /\ doc = Doc_Fonts
    /\ Len(tree) = 1
    /\ mark = <<1>>

\* The first parse() of the class has returned, with an empty stack.
C29_FirstParseBalanced ==
    /\ pc = "done"
    /\ doc = Doc_Fonts
    /\ Len(tree) = 1
    /\ mark = <<>>

-----------------------------------------------------------------------------
(* C30: rewriting a token is local and goes one way: while parse() runs    *)
(* the token list keeps its length, a slot changes only from a token that  *)
(* is not TEXT to a TEXT token, a slot holding TEXT or END is never        *)
(* changed, and ungetkn called with a token stores the token that was read *)
(* from the slot.                                                          *)

\* The step calls ungetkn with a token: parse_block_delim giving a delimiter
\* back, is_block_end in parse_para at a block-flagged token.
UngetsToken ==
    \/ Running("parse_block_delim") /\ tokind' = tokind - 1
    \/ /\ Running("parse_para")
       /\ ParaTok.type \in {"DELIM", "CTAG", "TAG"}
       /\ ParaTok.isblock

\* The length is kept and the slots change one way.
SlotsChangeOneWay ==
    /\ Len(toklist') = Len(toklist)
    /\ \A k \in Rewritten :
          /\ toklist[k].type \notin {"TEXT", "NIL"}
          /\ toklist'[k].type = "TEXT"

C30_RewritingIsLocalAndOneWay ==
    [][pc = "parse" =>
          /\ SlotsChangeOneWay
          /\ UngetsToken => toklist' = toklist]_vars

\* The same without the last part.
C30_SlotsChangeOneWay ==
    [][pc = "parse" => SlotsChangeOneWay]_vars


\* parse_header has failed and parse_block_delim has given the opener back:
\* the cursor is before the slot, and the slot holds a new TEXT token in the
\* place of the delimiter that was read from it.
C30_UngetStoresAnotherToken ==
    /\ Running("parse_block")
    /\ Top(Machine).pc = "ret_delim"
    /\ ~Truthy(ret)
    /\ tokind < Len(toklist)
    /\ toklist[tokind + 1] = TEXT(<<"=","=">>)
    /\ doc = <<"=","=">>

====
